---- MODULE Spec2Model ----
(***************************************************************************)
(* Order lifecycle (paper and live order managers) and the trade ledger of *)
(* the 15-minute box-arbitrage bot.                                        *)
(*                                                                         *)
(* Units: prices are in cents (0.52 -> 52), sizes in whole shares, time in *)
(* half seconds (the paper book cache lives for one unit).  Time is kept   *)
(* as an age: cache_age is time.time() - _cache_time, which stops counting *)
(* once it exceeds the cache's time to live.  A refresh sets _cache_time   *)
(* to the time its call started, so the age it leaves behind is the time   *)
(* its two fetches took: none (FetchAges) or more than the cache lives.    *)
(*                                                                         *)
(* Scheduling: asyncio is cooperative, so a coroutine runs atomically from *)
(* one suspension point to the next.  One caller task drives the manager;  *)
(* the engines' own background tasks (the delayed fills created by         *)
(* place_limit_buy in random mode, poll_for_fills in the live engine) run  *)
(* whenever the caller task is suspended or between two of its calls.      *)
(***************************************************************************)
EXTENDS Integers, Sequences, FiniteSets, TLC

\* ---------------------------------------------------------------- bounds
MaxOrders == 2
MaxNotify == 2

\* ------------------------------------------------------ program constants
CacheTtl == 1
DefaultBidPrice == 50
DefaultAskPrice == 52
DefaultLevelSize == 100
MarketBuySentinel == 55

None == -1

OrderSide == {"YES", "NO"}

OrderStatus == {"PENDING", "OPEN", "FILLED", "PARTIALLY_FILLED", "CANCELLED", "REJECTED"}

Terminal == {"CANCELLED", "FILLED", "REJECTED"}

\* Python truthiness of an Optional[float]: None and 0.0 are falsy.
Truthy(x) == x # None /\ x # 0

\* ------------------------------------------------------------ Order entity
Order(side, price, size, status, fq, fp) ==
  [side |-> side, price |-> price, size |-> size, status |-> status,
   filled_qty |-> fq, filled_avg_price |-> fp]

remaining(o) == o.size - o.filled_qty

is_active(o) == o.status \in {"OPEN", "PARTIALLY_FILLED"}

\* ---------------------------------------------------------------- OrderBook
OrderBook(bids, asks) == [bids |-> bids, asks |-> asks]

best_bid(b) == IF b.bids # <<>> THEN b.bids[1][1] ELSE None

best_ask(b) == IF b.asks # <<>> THEN b.asks[1][1] ELSE None

DefaultBook ==
  OrderBook(<< <<DefaultBidPrice, DefaultLevelSize>> >>,
            << <<DefaultAskPrice, DefaultLevelSize>> >>)

\* An absent entry of the _cached_books dict.
NoBook == [bids |-> << <<None, None>> >>, asks |-> << <<None, None>> >>]

\* list.sort(key=price) is stable: an element goes after the equal ones.
RECURSIVE InsertAsc(_, _)
InsertAsc(s, x) ==
  IF s = <<>> THEN <<x>>
  ELSE IF x[1] < s[1][1] THEN <<x>> \o s
  ELSE <<s[1]>> \o InsertAsc(Tail(s), x)

\* list.sort(key=price, reverse=True) keeps the order of equal elements too.
RECURSIVE InsertDesc(_, _)
InsertDesc(s, x) ==
  IF s = <<>> THEN <<x>>
  ELSE IF x[1] > s[1][1] THEN <<x>> \o s
  ELSE <<s[1]>> \o InsertDesc(Tail(s), x)

RECURSIVE SortAsc(_)
SortAsc(s) == IF s = <<>> THEN <<>> ELSE InsertAsc(SortAsc(SubSeq(s, 1, Len(s) - 1)), s[Len(s)])

RECURSIVE SortDesc(_)
SortDesc(s) == IF s = <<>> THEN <<>> ELSE InsertDesc(SortDesc(SubSeq(s, 1, Len(s) - 1)), s[Len(s)])

\* The "price > 0 and size > 0" filter of the paper fetch.
PositiveLevels(s) == SelectSeq(s, LAMBDA l : l[1] > 0 /\ l[2] > 0)

\* What GET /book can produce for one token.
FetchOutcomes ==
  { [kind |-> "ok", bids |-> << <<46, 10>> >>, asks |-> << <<56, 8>>, <<48, 10>> >>],
    [kind |-> "ok", bids |-> << <<45, 10>> >>, asks |-> << <<0, 5>>, <<49, 0>> >>],
    [kind |-> "timeout", bids |-> <<>>, asks |-> <<>>],
    [kind |-> "malformed", bids |-> <<>>, asks |-> <<>>] }

fetch_live_order_book(o) ==
  IF o.kind = "ok"
  THEN LET bids == SortDesc(PositiveLevels(o.bids))
           asks == SortAsc(PositiveLevels(o.asks))
       IN IF bids # <<>> \/ asks # <<>> THEN OrderBook(bids, asks) ELSE DefaultBook
  ELSE DefaultBook

\* What the caller may ask for.
LimitPrices == {50}

Sizes == {5}

VARIABLES
  engine,         \* "paper" or "live": which BaseOrderManager variant was constructed
  realistic_mode, \* PaperOrderManager.realistic_mode
  orders,         \* the orders table; an order's id is its index
  notified,       \* per order: number of fill-callback invocations for it
  cached_books,   \* PaperOrderManager._cached_books
  cache_age,      \* time.time() - PaperOrderManager._cache_time
  main,           \* the caller task: where it is suspended, with its locals
  delayed,        \* per order: the _delayed_fill task created for it
  venue,          \* per order: the order's state at the venue (live engine)
  poller,         \* the poll_for_fills task (live engine)
  ev,             \* what the last step executed (operation, order, result)
  trades,         \* TradeLogger.trades
  cycles,         \* TradeLogger.cycles (the closed cycles)
  current_cycle,  \* TradeLogger.current_cycle: <<>> for None, else <<cycle>>
  log_file,       \* the session file on disk
  saving,         \* the ledger operation whose _save has opened the file, "" if none
  durable,        \* how many trades the last _save that completed wrote
  faults,         \* how many writes failed or were cut by a crash so far
  lev,            \* what the last ledger step executed (operation, outcome)
  scan,           \* run_fast_box_arb: where the scan loop stands, its parameters and locals
  posted,         \* the post_orders requests run_fast_box_arb has sent, oldest first
  run             \* run_with_discovery: where the window loop stands, with its locals

omvars == <<engine, realistic_mode, orders, notified, cached_books, cache_age,
            main, delayed, venue, poller, ev>>

ledger == <<trades, cycles, current_cycle, log_file, saving, durable, faults, lev>>

\* The scanner has its own exchange client and shares nothing with the
\* order managers or the ledger.
scanner == <<scan, posted>>

vars == <<omvars, ledger, scanner, run>>

Ids == 1..Len(orders)

Idle == [pc |-> "idle", id |-> 0, k |-> 0, n |-> 0, cnt |-> 0, n0 |-> 0, side |-> "YES", price |-> 0, size |-> 0]

PollerOff == [pc |-> "off", k |-> 0, n |-> 0]

Ev(op, id, ret) == [op |-> op, id |-> id, ret |-> ret]

\* A step whose result no property reads.
OtherEv == Ev("other", 0, 0)

NoTask == "none"

AgeCap == CacheTtl + 1

FetchAges == {0, AgeCap}

Older(a) == IF a < AgeCap THEN a + 1 ELSE a

\* time.time() - _cache_time > _cache_ttl
Stale(age) == age > CacheTtl

\* _cached_books.get(side, default book)
CachedGet(cb, side) == IF cb[side] = NoBook THEN DefaultBook ELSE cb[side]

\* A fill that leaves one share of the order unfilled.
FilledInPart(o, price) ==
  [o EXCEPT !.status = "FILLED", !.filled_qty = o.size - 1, !.filled_avg_price = price]

\* Lines 271-273, 335-337, 379-381: the whole size is filled.
Filled(o, price) == [o EXCEPT !.status = "FILLED", !.filled_qty = o.size, !.filled_avg_price = price]

ActiveCount(ords) == Cardinality({i \in DOMAIN ords : is_active(ords[i])})

Bump(nf, id) == [nf EXCEPT ![id] = @ + 1]

InitOrderManager ==
  /\ engine \in {"paper", "live"}
  /\ realistic_mode \in (IF engine = "paper" THEN BOOLEAN ELSE {TRUE})
  /\ orders = <<>>
  /\ notified = <<>>
  /\ cached_books = [s \in OrderSide |-> NoBook]
  /\ cache_age = AgeCap
  /\ main = Idle
  /\ delayed = <<>>
  /\ venue = <<>>
  /\ poller = IF engine = "live" THEN [PollerOff EXCEPT !.pc = "sleep"] ELSE PollerOff
  /\ ev = Ev("init", 0, 0)


\* ================================================================ ledger
MaxTrades == 2
MaxCycles == 2
MaxFaults == 1

\* The fills the callers record: <<side, price, quantity>>.
TradeInputs == {<<"YES", 47, 5>>, <<"down", 49, 5>>}

\* What the callers complete a cycle with: <<status, locked_profit>>.
CompleteInputs == {<<"LOCKED", 3>>, <<"LOCKED", -2>>, <<"STOPPED", 0>>, <<"EXPIRED", 0>>}

\* str.upper() on the sides the callers pass.
Upper(x) == CASE x = "down" -> "DOWN" [] x = "up" -> "UP" [] x = "yes" -> "YES"
              [] x = "no" -> "NO" [] OTHER -> x

TradeRecord(side, price, quantity) ==
  [side |-> Upper(side), action |-> "BUY", price |-> price, quantity |-> quantity,
   value |-> price * quantity]

CycleRecord ==
  [up_entry_price |-> None, up_entry_qty |-> None, down_entry_price |-> None,
   down_entry_qty |-> None, total_cost |-> 0, locked_profit |-> 0, status |-> "OPEN"]

\* "x or 0" on an Optional[float]
OrZero(x) == IF Truthy(x) THEN x ELSE 0

\* A cycle whose total cost is a running sum of the trades' values.
CycleWithTradeAddsCost(c, side, price, quantity) ==
  LET d == IF Upper(side) \in {"YES", "UP"}
           THEN [c EXCEPT !.up_entry_price = price, !.up_entry_qty = quantity]
           ELSE [c EXCEPT !.down_entry_price = price, !.down_entry_qty = quantity]
  IN [d EXCEPT !.total_cost = c.total_cost + price * quantity]

\* Lines 188-199 of record_trade: the leg's entry and the cycle's total cost.
CycleWithTrade(c, side, price, quantity) ==
  LET d == IF Upper(side) \in {"YES", "UP"}
           THEN [c EXCEPT !.up_entry_price = price, !.up_entry_qty = quantity]
           ELSE [c EXCEPT !.down_entry_price = price, !.down_entry_qty = quantity]
  IN [d EXCEPT !.total_cost = OrZero(d.up_entry_price) * OrZero(d.up_entry_qty)
                              + OrZero(d.down_entry_price) * OrZero(d.down_entry_qty)]

\* The session file: absent, a complete JSON document, or cut short (opened
\* for writing, which empties it, and not written to the end).
AbsentFile == [state |-> "absent", trades |-> <<>>, cycles |-> <<>>]

PartialFile == [state |-> "partial", trades |-> <<>>, cycles |-> <<>>]

\* json.dump of an Optional[float]: None is written as null (<<>>), a
\* number as itself (<<x>>).
JsonValue(x) == IF x = None THEN <<>> ELSE <<x>>

\* A reader that takes null for the number 0.
PyValueNullIsZero(j) == IF j = <<>> THEN 0 ELSE j[1]

\* json.load of the same.
PyValue(j) == IF j = <<>> THEN None ELSE j[1]

\* CycleRecord.to_dict as json.dump writes it.
CycleToJson(c) ==
  [c EXCEPT !.up_entry_price = JsonValue(@), !.up_entry_qty = JsonValue(@),
            !.down_entry_price = JsonValue(@), !.down_entry_qty = JsonValue(@)]

\* CycleRecord(**c) on what json.load gives back.
CycleFromJson(j) ==
  [j EXCEPT !.up_entry_price = PyValue(@), !.up_entry_qty = PyValue(@),
            !.down_entry_price = PyValue(@), !.down_entry_qty = PyValue(@)]

\* Lines 138-145 of _save: the document json.dump writes.
SessionData(tr, cy) ==
  [state |-> "json", trades |-> tr, cycles |-> [i \in DOMAIN cy |-> CycleToJson(cy[i])]]

LEv(op, ret) == [op |-> op, ret |-> ret]

InitLedger ==
  /\ trades = <<>>
  /\ cycles = <<>>
  /\ current_cycle = <<>>
  /\ log_file = AbsentFile
  /\ saving = ""
  /\ durable = 0
  /\ faults = 0
  /\ lev = LEv("init", "ok")

\* run_fast_box_arb has not been called.
ScanOff ==
  [pc |-> "off", ttd |-> 0, continuous |-> FALSE, order_type |-> "FOK", min_edge |-> 0,
   cycle |-> 0, fills |-> 0, last |-> "none", books |-> [n |-> 0, up |-> <<>>, down |-> <<>>]]

InitScannerOff ==
  /\ scan = ScanOff
  /\ posted = <<>>

\* run_with_discovery has not been called.
RunOff ==
  [pc |-> "off", paper_mode |-> TRUE, continuous |-> FALSE, creds |-> FALSE,
   windows |-> 0, ended |-> "none", active |-> 0, resting |-> 0, sweeps |-> 0]

InitRunOff == run = RunOff

Init == InitOrderManager /\ InitLedger /\ InitScannerOff /\ InitRunOff

\* ----------------------------------------------------- TradeLogger.start_cycle
start_cycle ==
  /\ saving = ""
  /\ current_cycle' = <<CycleRecord>>
  /\ lev' = LEv("start_cycle", "ok")
  /\ UNCHANGED <<trades, cycles, log_file, saving, durable, faults, omvars, scanner, run>>

\* ----------------------------------------------------------- TradeLogger._save
\* open(log_file, "w") raises and leaves the file alone, or empties the file;
\* json.dump then writes into it.
SaveOpen(op) ==
  \E opened \in BOOLEAN :
    IF opened
    THEN /\ log_file' = PartialFile
         /\ saving' = op
         /\ lev' = LEv(op, "saving")
         /\ UNCHANGED faults
    ELSE /\ faults < MaxFaults
         /\ faults' = faults + 1
         /\ lev' = LEv(op, "raised")
         /\ UNCHANGED <<log_file, saving>>

\* json.dump wrote the whole document and the file was closed.
SaveWritten ==
  /\ saving # ""
  /\ log_file' = SessionData(trades, cycles)
  /\ durable' = Len(trades)
  /\ lev' = LEv(saving, "ok")
  /\ saving' = ""
  /\ UNCHANGED <<trades, cycles, current_cycle, faults, omvars, scanner, run>>

\* A _save that catches the error of the write and returns.
SaveRaisesSwallowed ==
  /\ saving # ""
  /\ faults < MaxFaults
  /\ faults' = faults + 1
  /\ lev' = LEv(saving, "ok")
  /\ saving' = ""
  /\ UNCHANGED <<trades, cycles, current_cycle, log_file, durable, omvars, scanner, run>>

\* The write raised (disk full, I/O error): the exception leaves _save and
\* the operation that called it; the file stays cut short.
SaveRaises ==
  /\ saving # ""
  /\ faults < MaxFaults
  /\ faults' = faults + 1
  /\ lev' = LEv(saving, "raised")
  /\ saving' = ""
  /\ UNCHANGED <<trades, cycles, current_cycle, log_file, durable, omvars, scanner, run>>

\* ---------------------------------------------------- TradeLogger.record_trade
\* record_trade without its call of _save.
record_trade_unsaved(side, price, quantity) ==
  /\ saving = ""
  /\ Len(trades) < MaxTrades
  /\ trades' = Append(trades, TradeRecord(side, price, quantity))
  /\ current_cycle' = IF current_cycle # <<>>
                      THEN <<CycleWithTrade(current_cycle[1], side, price, quantity)>>
                      ELSE current_cycle
  /\ lev' = LEv("record_trade", "ok")
  /\ UNCHANGED <<cycles, log_file, saving, durable, faults, omvars, scanner, run>>

record_trade(side, price, quantity) ==
  /\ saving = ""
  /\ Len(trades) < MaxTrades
  /\ trades' = Append(trades, TradeRecord(side, price, quantity))
  /\ current_cycle' = IF current_cycle # <<>>
                      THEN <<CycleWithTrade(current_cycle[1], side, price, quantity)>>
                      ELSE current_cycle
  /\ SaveOpen("record_trade")
  /\ UNCHANGED <<cycles, durable, omvars, scanner, run>>

\* -------------------------------------------------- TradeLogger.complete_cycle
complete_cycle(status, locked_profit) ==
  /\ saving = ""
  /\ IF current_cycle = <<>>
     THEN /\ lev' = LEv("complete_cycle", "no cycle")
          /\ UNCHANGED <<trades, cycles, current_cycle, log_file, saving, durable, faults>>
     ELSE /\ Len(cycles) < MaxCycles
          /\ cycles' = Append(cycles, [current_cycle[1] EXCEPT !.status = status,
                                                               !.locked_profit = locked_profit])
          /\ current_cycle' = <<>>
          /\ SaveOpen("complete_cycle")
          /\ UNCHANGED <<trades, durable>>
  /\ UNCHANGED <<omvars, scanner, run>>

\* ------------------------------------------------------- TradeLogger.get_stats
Abs(x) == IF x < 0 THEN -x ELSE x

\* Totals in which a locked cycle never counts as a loss.
StatsWithCycleLossIgnored(st, c) ==
  CASE c.status = "LOCKED" ->
         [st EXCEPT !.locked_cycles = @ + 1, !.completed_cycles = @ + 1,
                    !.gross_profit = IF c.locked_profit > 0 THEN @ + 2 * c.locked_profit ELSE @]
    [] c.status = "STOPPED" ->
         [st EXCEPT !.stopped_cycles = @ + 1, !.completed_cycles = @ + 1,
                    !.gross_loss = IF c.total_cost > 0 THEN @ + c.total_cost ELSE @]
    [] c.status = "EXPIRED" -> [st EXCEPT !.expired_cycles = @ + 1]
    [] OTHER -> st

\* Lines 230-248 for one cycle, added to the running totals.  Money is kept
\* in half cents, so that "total_cost * 0.5" stays a whole number.
StatsWithCycle(st, c) ==
  CASE c.status = "LOCKED" ->
         [st EXCEPT !.locked_cycles = @ + 1, !.completed_cycles = @ + 1,
                    !.gross_profit = IF c.locked_profit > 0 THEN @ + 2 * c.locked_profit ELSE @,
                    !.gross_loss = IF c.locked_profit > 0 THEN @ ELSE @ + 2 * Abs(c.locked_profit)]
    [] c.status = "STOPPED" ->
         [st EXCEPT !.stopped_cycles = @ + 1, !.completed_cycles = @ + 1,
                    !.gross_loss = IF c.total_cost > 0 THEN @ + c.total_cost ELSE @]
    [] c.status = "EXPIRED" -> [st EXCEPT !.expired_cycles = @ + 1]
    [] OTHER -> st

RECURSIVE StatsOver(_, _, _)
StatsOver(st, cy, i) ==
  IF i > Len(cy) THEN st ELSE StatsOver(StatsWithCycle(st, cy[i]), cy, i + 1)

\* Statistics whose two rates are taken over all closed cycles.
get_stats_rates_over_all(tr, cy) ==
  LET zero == [total_trades |-> Len(tr), total_cycles |-> Len(cy), completed_cycles |-> 0,
               locked_cycles |-> 0, stopped_cycles |-> 0, expired_cycles |-> 0,
               gross_profit |-> 0, gross_loss |-> 0]
      st == StatsOver(zero, cy, 1)
      net == st.gross_profit - st.gross_loss
  IN [total_trades |-> st.total_trades, total_cycles |-> st.total_cycles,
      completed_cycles |-> st.completed_cycles, locked_cycles |-> st.locked_cycles,
      stopped_cycles |-> st.stopped_cycles, expired_cycles |-> st.expired_cycles,
      gross_profit |-> st.gross_profit, gross_loss |-> st.gross_loss, net_pnl |-> net,
      win_rate |-> IF st.total_cycles > 0
                   THEN <<st.locked_cycles, st.total_cycles>> ELSE <<0, 1>>,
      avg_profit_per_cycle |-> IF st.total_cycles > 0
                               THEN <<net, st.total_cycles>> ELSE <<0, 1>>]

\* The statistics that depend on the collections.  win_rate and
\* avg_profit_per_cycle are the pairs <<numerator, denominator>> of the two
\* divisions, <<0, 1>> where the code leaves the default 0.0.  start_time,
\* end_time and duration_hours are session_start and the clock read at the
\* call, neither of which is part of the collections.
get_stats(tr, cy) ==
  LET zero == [total_trades |-> Len(tr), total_cycles |-> Len(cy), completed_cycles |-> 0,
               locked_cycles |-> 0, stopped_cycles |-> 0, expired_cycles |-> 0,
               gross_profit |-> 0, gross_loss |-> 0]
      st == StatsOver(zero, cy, 1)
      net == st.gross_profit - st.gross_loss
  IN [total_trades |-> st.total_trades, total_cycles |-> st.total_cycles,
      completed_cycles |-> st.completed_cycles, locked_cycles |-> st.locked_cycles,
      stopped_cycles |-> st.stopped_cycles, expired_cycles |-> st.expired_cycles,
      gross_profit |-> st.gross_profit, gross_loss |-> st.gross_loss, net_pnl |-> net,
      win_rate |-> IF st.completed_cycles > 0
                   THEN <<st.locked_cycles, st.completed_cycles>> ELSE <<0, 1>>,
      avg_profit_per_cycle |-> IF st.completed_cycles > 0
                               THEN <<net, st.completed_cycles>> ELSE <<0, 1>>]

\* ------------------------------------------ TradeLogger.__init__ and _load
\* Lines 120-134: a file that exists and parses gives the trades and cycles;
\* any exception is logged and the collections stay empty.
LoadedTrades(f) == IF f.state = "json" THEN f.trades ELSE <<>>

LoadedCycles(f) ==
  IF f.state = "json" THEN [i \in DOMAIN f.cycles |-> CycleFromJson(f.cycles[i])] ELSE <<>>

\* A new TradeLogger is constructed on the same session name and directory
\* after the process has ended between two ledger operations.
Restart ==
  /\ saving = ""
  /\ trades' = LoadedTrades(log_file)
  /\ cycles' = LoadedCycles(log_file)
  /\ current_cycle' = <<>>
  /\ lev' = LEv("restart", "ok")
  /\ UNCHANGED <<log_file, saving, durable, faults, omvars, scanner, run>>

\* The same after the process was killed inside _save, between open() and
\* the end of json.dump.
CrashInSave ==
  /\ saving # ""
  /\ faults < MaxFaults
  /\ faults' = faults + 1
  /\ trades' = LoadedTrades(log_file)
  /\ cycles' = LoadedCycles(log_file)
  /\ current_cycle' = <<>>
  /\ saving' = ""
  /\ lev' = LEv("restart", "crashed in save")
  /\ UNCHANGED <<log_file, durable, omvars, scanner, run>>

NextLedger ==
  \/ start_cycle
  \/ \E t \in TradeInputs : record_trade(t[1], t[2], t[3])
  \/ \E c \in CompleteInputs : complete_cycle(c[1], c[2])
  \/ SaveWritten
  \/ SaveRaises
  \/ Restart
  \/ CrashInSave

\* The ledger on its own, beside an order manager that is not used.
InitLedgerOnly == Init /\ engine = "paper" /\ realistic_mode = TRUE

SpecLedger == InitLedgerOnly /\ [][NextLedger]_vars

\* ------------------------------------------------- get_stats, called
\* A caller asks for the statistics between two ledger operations
\* (print_summary does); ev holds what the call returned.
\* A get_stats that takes the open cycle for a closed one.
GetStatsCountsOpenCycle ==
  /\ saving = ""
  /\ ev' = Ev("get_stats", 0, get_stats(trades, cycles \o current_cycle))
  /\ UNCHANGED <<engine, realistic_mode, orders, notified, cached_books, cache_age,
                 main, delayed, venue, poller, ledger, scanner, run>>

GetStats ==
  /\ saving = ""
  /\ ev' = Ev("get_stats", 0, get_stats(trades, cycles))
  /\ UNCHANGED <<engine, realistic_mode, orders, notified, cached_books, cache_age,
                 main, delayed, venue, poller, ledger, scanner, run>>

NextStats ==
  \/ NextLedger
  \/ GetStats

SpecStats == InitLedgerOnly /\ [][NextStats]_vars

\* ======================================================= order managers
\* ------------------------------------------------------------ time passes
Tick ==
  /\ engine = "paper"
  /\ cache_age' = Older(cache_age)
  /\ ev' = OtherEv
  /\ UNCHANGED <<ledger, scanner, run, venue, poller, engine, realistic_mode, orders, notified, cached_books, main, delayed>>

\* ------------------------------------------ PaperOrderManager.place_limit_buy
\* place_limit_buy that fills a crossing order without invoking the callback.
PaperPlaceDecideSilent(ords, nf, dl, id, book, sched) ==
  LET o == ords[id]
      a == best_ask(book)
      cross == Truthy(a) /\ o.price >= a
  IN /\ orders' = IF cross THEN [ords EXCEPT ![id] = Filled(o, a)] ELSE ords
     /\ notified' = nf
     /\ delayed' = IF ~cross /\ ~realistic_mode /\ sched
                   THEN [dl EXCEPT ![id] = "sleeping"] ELSE dl
     /\ main' = Idle
     /\ ev' = Ev("place_limit_buy", id, 1)

\* Lines 264-287, from the book that get_order_book returned.
PaperPlaceDecide(ords, nf, dl, id, book, sched) ==
  LET o == ords[id]
      a == best_ask(book)
      cross == Truthy(a) /\ o.price >= a
  IN /\ orders' = IF cross THEN [ords EXCEPT ![id] = Filled(o, a)] ELSE ords
     /\ notified' = IF cross THEN Bump(nf, id) ELSE nf
     /\ delayed' = IF ~cross /\ ~realistic_mode /\ sched
                   THEN [dl EXCEPT ![id] = "sleeping"] ELSE dl
     /\ main' = Idle
     /\ ev' = Ev("place_limit_buy", id, 1)

PaperPlaceLimitBuy(side, price, size) ==
  /\ engine = "paper"
  /\ main.pc = "idle"
  /\ Len(orders) < MaxOrders
  /\ LET id == Len(orders) + 1
         ords == Append(orders, Order(side, price, size, "OPEN", 0, 0))
         nf == Append(notified, 0)
         dl == Append(delayed, NoTask)
     IN IF Stale(cache_age)
        THEN /\ orders' = ords
             /\ notified' = nf
             /\ delayed' = dl
             /\ main' = [Idle EXCEPT !.pc = "place_fetch", !.id = id, !.side = side]
             /\ ev' = Ev("place_limit_buy:wait", id, None)
             /\ UNCHANGED <<cached_books, cache_age>>
        ELSE /\ \E sched \in BOOLEAN :
                  PaperPlaceDecide(ords, nf, dl, id, CachedGet(cached_books, side), sched)
             /\ UNCHANGED <<cached_books, cache_age>>
  /\ UNCHANGED <<ledger, scanner, run, venue, poller, engine, realistic_mode>>

\* The refresh of get_order_book (lines 236-241) finishes: both fetches are
\* stored together and _cache_age is the time the call started.  The two
\* awaits are one suspension here: nothing is stored between them.
PaperPlaceResume ==
  /\ engine = "paper"
  /\ main.pc = "place_fetch"
  /\ \E oy \in FetchOutcomes, on \in FetchOutcomes, el \in FetchAges, sched \in BOOLEAN :
        LET cb == [s \in OrderSide |-> IF s = "YES" THEN fetch_live_order_book(oy)
                                       ELSE fetch_live_order_book(on)]
        IN /\ cached_books' = cb
           /\ cache_age' = el
           /\ PaperPlaceDecide(orders, notified, delayed, main.id, CachedGet(cb, main.side), sched)
  /\ UNCHANGED <<ledger, scanner, run, venue, poller, engine, realistic_mode>>

\* --------------------------------------------- PaperOrderManager.cancel_order
PaperCancelOrder(id) ==
  /\ engine = "paper"
  /\ main.pc = "idle"
  /\ IF id \in Ids /\ is_active(orders[id])
     THEN /\ orders' = [orders EXCEPT ![id].status = "CANCELLED"]
          /\ ev' = Ev("cancel_order", id, 1)
     ELSE /\ orders' = orders
          /\ ev' = Ev("cancel_order", id, 0)
  /\ UNCHANGED <<ledger, scanner, run, venue, poller, engine, realistic_mode, notified, cached_books, cache_age, main, delayed>>

\* ---------------------------------------- PaperOrderManager.cancel_all_orders
PaperCancelAllOrders ==
  /\ engine = "paper"
  /\ main.pc = "idle"
  /\ orders' = [i \in Ids |-> IF is_active(orders[i])
                              THEN [orders[i] EXCEPT !.status = "CANCELLED"]
                              ELSE orders[i]]
  /\ ev' = Ev("cancel_all_orders", 0, ActiveCount(orders))
  /\ UNCHANGED <<ledger, scanner, run, venue, poller, engine, realistic_mode, notified, cached_books, cache_age, main, delayed>>

\* -------------------------------------- PaperOrderManager.check_pending_fills
\* check_pending_fills that fills at the order's limit instead of the ask.
CpfFillAtLimit(o, book) ==
  LET a == best_ask(book)
  IN IF Truthy(a) /\ a <= o.price THEN Filled(o, o.price) ELSE o

\* Lines 330-339 for one order, from the book that get_order_book returned.
CpfFill(o, book) ==
  LET a == best_ask(book)
  IN IF Truthy(a) /\ a <= o.price THEN Filled(o, a) ELSE o

CpfFills(o, book) == LET a == best_ask(book) IN Truthy(a) /\ a <= o.price

\* The loop of lines 322-339 from order k on, run until it must wait for a
\* refresh of the book cache (susp) or has gone through the n listed orders.
RECURSIVE CpfRun(_, _, _, _, _, _, _)
CpfRun(ords, nf, k, n, cnt, cb, age) ==
  IF k > n THEN [orders |-> ords, notified |-> nf, k |-> k, cnt |-> cnt, susp |-> FALSE]
  ELSE IF ords[k].status # "OPEN" THEN CpfRun(ords, nf, k + 1, n, cnt, cb, age)
  ELSE IF Stale(age) THEN [orders |-> ords, notified |-> nf, k |-> k, cnt |-> cnt, susp |-> TRUE]
  ELSE LET book == CachedGet(cb, ords[k].side)
       IN IF CpfFills(ords[k], book)
          THEN CpfRun([ords EXCEPT ![k] = CpfFill(ords[k], book)], Bump(nf, k),
                      k + 1, n, cnt + 1, cb, age)
          ELSE CpfRun(ords, nf, k + 1, n, cnt, cb, age)

CpfCommit(r, n) ==
  /\ orders' = r.orders
  /\ notified' = r.notified
  /\ IF r.susp
     THEN /\ main' = [Idle EXCEPT !.pc = "cpf_fetch", !.k = r.k, !.n = n, !.cnt = r.cnt]
          /\ ev' = Ev("check_pending_fills:wait", 0, None)
     ELSE /\ main' = Idle
          /\ ev' = Ev("check_pending_fills", 0, r.cnt)

PaperCheckPendingFills ==
  /\ engine = "paper"
  /\ main.pc = "idle"
  /\ CpfCommit(CpfRun(orders, notified, 1, Len(orders), 0, cached_books, cache_age),
               Len(orders))
  /\ UNCHANGED <<ledger, scanner, run, venue, poller, engine, realistic_mode, cached_books, cache_age, delayed>>

\* The refresh that order main.k waited for finishes; lines 332-339 run for
\* that order with the status it was listed with, then the loop goes on.
PaperCheckPendingFillsResume ==
  /\ engine = "paper"
  /\ main.pc = "cpf_fetch"
  /\ \E oy \in FetchOutcomes, on \in FetchOutcomes, el \in FetchAges :
        LET cb == [s \in OrderSide |-> IF s = "YES" THEN fetch_live_order_book(oy)
                                       ELSE fetch_live_order_book(on)]
            k == main.k
            book == CachedGet(cb, orders[k].side)
            hit == CpfFills(orders[k], book)
            ords == [orders EXCEPT ![k] = CpfFill(orders[k], book)]
            nf == IF hit THEN Bump(notified, k) ELSE notified
            cnt == IF hit THEN main.cnt + 1 ELSE main.cnt
        IN /\ cached_books' = cb
           /\ cache_age' = el
           /\ CpfCommit(CpfRun(ords, nf, k + 1, main.n, cnt, cb, el), main.n)
  /\ UNCHANGED <<ledger, scanner, run, venue, poller, engine, realistic_mode, delayed>>

\* ------------------------------------------------ PaperOrderManager.market_buy
PaperMarketBuyDecide(book, side, size) ==
  LET a == best_ask(book)
      fill_price == IF Truthy(a) THEN a ELSE MarketBuySentinel
      id == Len(orders) + 1
  IN /\ orders' = Append(orders, Order(side, fill_price, size, "FILLED", size, fill_price))
     /\ notified' = Append(notified, 1)
     /\ delayed' = Append(delayed, NoTask)
     /\ main' = Idle
     /\ ev' = Ev("market_buy", id, 1)

PaperMarketBuy(side, size) ==
  /\ engine = "paper"
  /\ main.pc = "idle"
  /\ Len(orders) < MaxOrders
  /\ IF Stale(cache_age)
     THEN /\ main' = [Idle EXCEPT !.pc = "mkt_fetch", !.side = side, !.size = size]
          /\ ev' = Ev("market_buy:wait", 0, None)
          /\ UNCHANGED <<orders, notified, delayed>>
     ELSE PaperMarketBuyDecide(CachedGet(cached_books, side), side, size)
  /\ UNCHANGED <<ledger, scanner, run, venue, poller, engine, realistic_mode, cached_books, cache_age>>

PaperMarketBuyResume ==
  /\ engine = "paper"
  /\ main.pc = "mkt_fetch"
  /\ \E oy \in FetchOutcomes, on \in FetchOutcomes, el \in FetchAges :
        LET cb == [s \in OrderSide |-> IF s = "YES" THEN fetch_live_order_book(oy)
                                       ELSE fetch_live_order_book(on)]
        IN /\ cached_books' = cb
           /\ cache_age' = el
           /\ PaperMarketBuyDecide(CachedGet(cb, main.side), main.side, main.size)
  /\ UNCHANGED <<ledger, scanner, run, venue, poller, engine, realistic_mode>>

\* ------------------------------------------ PaperOrderManager.get_order_book
PaperGetOrderBook(side) ==
  /\ engine = "paper"
  /\ main.pc = "idle"
  /\ IF Stale(cache_age)
     THEN /\ main' = [Idle EXCEPT !.pc = "gob_fetch", !.side = side]
          /\ ev' = OtherEv
     ELSE /\ main' = Idle
          /\ ev' = OtherEv
  /\ UNCHANGED <<ledger, scanner, run, venue, poller, engine, realistic_mode, orders, notified, cached_books, cache_age, delayed>>

\* A refresh that stores the book of the requested side only.
PaperGetOrderBookResumeOneSide ==
  /\ engine = "paper"
  /\ main.pc = "gob_fetch"
  /\ \E o \in FetchOutcomes, el \in FetchAges :
        /\ cached_books' = [cached_books EXCEPT ![main.side] = fetch_live_order_book(o)]
        /\ cache_age' = el
        /\ ev' = OtherEv
  /\ main' = Idle
  /\ UNCHANGED <<ledger, scanner, run, venue, poller, engine, realistic_mode, orders, notified, delayed>>

PaperGetOrderBookResume ==
  /\ engine = "paper"
  /\ main.pc = "gob_fetch"
  /\ \E oy \in FetchOutcomes, on \in FetchOutcomes, el \in FetchAges :
        LET cb == [s \in OrderSide |-> IF s = "YES" THEN fetch_live_order_book(oy)
                                       ELSE fetch_live_order_book(on)]
        IN /\ cached_books' = cb
           /\ cache_age' = el
           /\ ev' = OtherEv
  /\ main' = Idle
  /\ UNCHANGED <<ledger, scanner, run, venue, poller, engine, realistic_mode, orders, notified, delayed>>

\* ------------------------------------ PaperOrderManager.refresh_order_status
PaperRefreshOrderStatus(id) ==
  /\ engine = "paper"
  /\ main.pc = "idle"
  /\ ev' = OtherEv
  /\ UNCHANGED <<ledger, scanner, run, venue, poller, engine, realistic_mode, orders, notified, cached_books, cache_age, main, delayed>>

\* ----------------------- PaperOrderManager._delayed_fill and simulate_fill
\* Lines 380-385: the writes of simulate_fill, with fill_price = order.price.
SimulateFillWrite(id) ==
  /\ orders' = [orders EXCEPT ![id] = Filled(orders[id], orders[id].price)]
  /\ notified' = Bump(notified, id)
  /\ delayed' = [delayed EXCEPT ![id] = NoTask]
  /\ ev' = OtherEv

\* The sleep of _delayed_fill is over and simulate_fill(order_id) starts
\* (simulate_fill has no other caller, so fill_price is None).
DelayedFill(id) ==
  /\ engine = "paper"
  /\ id \in Ids
  /\ delayed[id] = "sleeping"
  /\ IF ~is_active(orders[id])
     THEN /\ delayed' = [delayed EXCEPT ![id] = NoTask]
          /\ ev' = OtherEv
          /\ UNCHANGED <<orders, notified>>
     ELSE IF Stale(cache_age)
     THEN /\ delayed' = [delayed EXCEPT ![id] = "fetching"]
          /\ ev' = OtherEv
          /\ UNCHANGED <<orders, notified>>
     ELSE SimulateFillWrite(id)
  /\ UNCHANGED <<ledger, scanner, run, venue, poller, engine, realistic_mode, cached_books, cache_age, main>>

\* The refresh simulate_fill waited for finishes (line 377), then it writes.
DelayedFillResume(id) ==
  /\ engine = "paper"
  /\ id \in Ids
  /\ delayed[id] = "fetching"
  /\ \E oy \in FetchOutcomes, on \in FetchOutcomes, el \in FetchAges :
        /\ cached_books' = [s \in OrderSide |-> IF s = "YES" THEN fetch_live_order_book(oy)
                                                ELSE fetch_live_order_book(on)]
        /\ cache_age' = el
  /\ SimulateFillWrite(id)
  /\ UNCHANGED <<ledger, scanner, run, venue, poller, engine, realistic_mode, main>>

NextPaper ==
  \/ Tick
  \/ \E s \in OrderSide, p \in LimitPrices, z \in Sizes : PaperPlaceLimitBuy(s, p, z)
  \/ PaperPlaceResume
  \/ \E id \in 0..MaxOrders : PaperCancelOrder(id)
  \/ PaperCancelAllOrders
  \/ PaperCheckPendingFills
  \/ PaperCheckPendingFillsResume
  \/ \E s \in OrderSide, z \in Sizes : PaperMarketBuy(s, z)
  \/ PaperMarketBuyResume
  \/ \E s \in OrderSide : PaperGetOrderBook(s)
  \/ PaperGetOrderBookResume
  \/ \E id \in 0..MaxOrders : PaperRefreshOrderStatus(id)
  \/ \E id \in 1..MaxOrders : DelayedFill(id)
  \/ \E id \in 1..MaxOrders : DelayedFillResume(id)

\* =========================================================== live engine
\* What client.get_order_book can hand back for one token.
LiveBookOutcomes ==
  { [kind |-> "raise", bids |-> <<>>, asks |-> <<>>],
    [kind |-> "ok", bids |-> << <<46, 10>> >>, asks |-> << <<56, 8>>, <<48, 10>> >>],
    [kind |-> "ok", bids |-> << <<45, 10>> >>, asks |-> <<>>],
    [kind |-> "ok", bids |-> <<>>, asks |-> << <<49, 3>>, <<0, 5>> >>] }

\* LiveOrderManager._normalize_order_book_summary: levels are converted and
\* sorted, none is dropped.
normalize_order_book_summary(raw) == OrderBook(SortDesc(raw.bids), SortAsc(raw.asks))

\* LiveOrderManager.get_order_book: an exception of the client gives an empty book.
live_get_order_book(o) ==
  IF o.kind = "raise" THEN OrderBook(<<>>, <<>>) ELSE normalize_order_book_summary(o)

VenueOrder(status, matched, avg) == [status |-> status, matched |-> matched, avg |-> avg]

\* What client.get_order can hand back for an order the venue holds in state
\* v: an exception, a payload that is no dict, or a dict whose status is the
\* venue's status or a spelling status_map does not know, with or without
\* fill fields under one of the names the code reads.
Responses(v) ==
  {[kind |-> "raise", status |-> "", filled |-> None, avg |-> None],
   [kind |-> "object", status |-> "", filled |-> None, avg |-> None]}
  \cup {[kind |-> "dict", status |-> st, filled |-> f[1], avg |-> f[2]] :
          st \in {v.status, "unrecognised"}, f \in {<<v.matched, v.avg>>, <<None, None>>}}

status_map(name, default) ==
  CASE name = "open" -> "OPEN"
    [] name = "filled" -> "FILLED"
    [] name = "cancelled" -> "CANCELLED"
    [] OTHER -> default

\* float(x or 0)
FloatOrZero(x) == IF Truthy(x) THEN x ELSE 0

\* Lines 568-603 of refresh_order_status on a tracked order.
ApplyResponse(o, r) ==
  IF r.kind = "dict"
  THEN [o EXCEPT !.status = status_map(r.status, o.status),
                 !.filled_qty = FloatOrZero(r.filled),
                 !.filled_avg_price = FloatOrZero(r.avg)]
  ELSE o

\* Line 605: does this refresh invoke the fill callback?
Notifies(o) == o.status = "FILLED" /\ o.filled_qty > 0

\* The first order from k to n that is active, 0 when there is none.
RECURSIVE NextActive(_, _, _)
NextActive(ords, k, n) ==
  IF k > n THEN 0 ELSE IF is_active(ords[k]) THEN k ELSE NextActive(ords, k + 1, n)

\* The venue matches a resting order in full at its limit price.
VenueFill(id) ==
  /\ engine = "live"
  /\ id \in Ids
  /\ venue[id].status = "open"
  /\ venue' = [venue EXCEPT ![id] = VenueOrder("filled", orders[id].size, orders[id].price)]
  /\ ev' = OtherEv
  /\ UNCHANGED <<ledger, scanner, run, engine, realistic_mode, orders, notified, cached_books, cache_age, main, delayed, poller>>

\* ------------------------------------------- LiveOrderManager.place_limit_buy
LivePlaceLimitBuy(side, price, size) ==
  /\ engine = "live"
  /\ main.pc = "idle"
  /\ Len(orders) < MaxOrders
  /\ main' = [Idle EXCEPT !.pc = "live_place", !.side = side, !.price = price, !.size = size]
  /\ ev' = Ev("place_limit_buy:wait", 0, None)
  /\ UNCHANGED <<ledger, scanner, run, engine, realistic_mode, orders, notified, cached_books, cache_age, delayed, venue, poller>>

\* create_and_post_order returns (the order now rests at the venue) or raises.
\* Also the second half of market_buy, which ends in place_limit_buy.
LivePlaceResume ==
  /\ engine = "live"
  /\ main.pc \in {"live_place", "live_mkt_place"}
  /\ LET op == IF main.pc = "live_place" THEN "place_limit_buy" ELSE "market_buy"
     IN \E ok \in BOOLEAN :
          IF ok
          THEN /\ orders' = Append(orders, Order(main.side, main.price, main.size, "OPEN", 0, 0))
               /\ notified' = Append(notified, 0)
               /\ delayed' = Append(delayed, "none")
               /\ venue' = Append(venue, VenueOrder("open", 0, 0))
               /\ ev' = Ev(op, Len(orders) + 1, 1)
          ELSE /\ ev' = Ev(op, 0, 0)
               /\ UNCHANGED <<orders, notified, delayed, venue>>
  /\ main' = Idle
  /\ UNCHANGED <<ledger, scanner, run, engine, realistic_mode, cached_books, cache_age, poller>>

\* ---------------------------------------------- LiveOrderManager.cancel_order
\* Lines 519-525 once client.cancel has returned without raising: the venue
\* cancels what it still holds open, the local order is set to CANCELLED.
LiveCancelled(ords, id) == IF id \in DOMAIN ords THEN [ords EXCEPT ![id].status = "CANCELLED"] ELSE ords

VenueCancelled(vn, id) ==
  IF id \in DOMAIN vn /\ vn[id].status = "open" THEN [vn EXCEPT ![id].status = "cancelled"] ELSE vn

LiveCancelOrder(id) ==
  /\ engine = "live"
  /\ main.pc = "idle"
  /\ id \in Ids \cup {0}
  /\ main' = [Idle EXCEPT !.pc = "live_cancel", !.id = id]
  /\ ev' = Ev("cancel_order:wait", id, None)
  /\ UNCHANGED <<ledger, scanner, run, engine, realistic_mode, orders, notified, cached_books, cache_age, delayed, venue, poller>>

LiveCancelResume ==
  /\ engine = "live"
  /\ main.pc = "live_cancel"
  /\ \E ok \in BOOLEAN :
        IF ok
        THEN /\ orders' = LiveCancelled(orders, main.id)
             /\ venue' = VenueCancelled(venue, main.id)
             /\ ev' = Ev("cancel_order", main.id, 1)
        ELSE /\ ev' = Ev("cancel_order", main.id, 0)
             /\ UNCHANGED <<orders, venue>>
  /\ main' = Idle
  /\ UNCHANGED <<ledger, scanner, run, engine, realistic_mode, notified, cached_books, cache_age, delayed, poller>>

\* ----------------------------------------- LiveOrderManager.cancel_all_orders
\* A sweep that gives up at the first order it did not cancel.
LiveCancelAllNextStopsOnFailure(ords, k, n, cnt, n0) ==
  LET j == IF k > 1 /\ is_active(ords[k - 1]) THEN 0 ELSE NextActive(ords, k, n)
  IN IF j = 0
     THEN /\ main' = Idle
          /\ ev' = Ev("cancel_all_orders", 0, cnt)
     ELSE /\ main' = [Idle EXCEPT !.pc = "live_cancel_all", !.k = j, !.n = n, !.cnt = cnt,
                                  !.n0 = n0]
          /\ ev' = Ev("cancel_all_orders:wait", j, None)

\* n0 remembers how many orders were active when the sweep was called.
LiveCancelAllNext(ords, k, n, cnt, n0) ==
  LET j == NextActive(ords, k, n)
  IN IF j = 0
     THEN /\ main' = Idle
          /\ ev' = Ev("cancel_all_orders", 0, cnt)
     ELSE /\ main' = [Idle EXCEPT !.pc = "live_cancel_all", !.k = j, !.n = n, !.cnt = cnt,
                                  !.n0 = n0]
          /\ ev' = Ev("cancel_all_orders:wait", j, None)

LiveCancelAllOrders ==
  /\ engine = "live"
  /\ main.pc = "idle"
  /\ LiveCancelAllNext(orders, 1, Len(orders), 0, ActiveCount(orders))
  /\ UNCHANGED <<ledger, scanner, run, engine, realistic_mode, orders, notified, cached_books, cache_age, delayed, venue, poller>>

\* A sweep that counts an order whether or not its cancel succeeded.
LiveCancelAllResumeCountsAll ==
  /\ engine = "live"
  /\ main.pc = "live_cancel_all"
  /\ \E ok \in BOOLEAN :
        LET ords == IF ok THEN LiveCancelled(orders, main.k) ELSE orders
            cnt == main.cnt + 1
        IN /\ orders' = ords
           /\ venue' = IF ok THEN VenueCancelled(venue, main.k) ELSE venue
           /\ LiveCancelAllNext(ords, main.k + 1, main.n, cnt, main.n0)
  /\ UNCHANGED <<ledger, scanner, run, engine, realistic_mode, notified, cached_books, cache_age, delayed, poller>>

LiveCancelAllResume ==
  /\ engine = "live"
  /\ main.pc = "live_cancel_all"
  /\ \E ok \in BOOLEAN :
        LET ords == IF ok THEN LiveCancelled(orders, main.k) ELSE orders
            cnt == IF ok THEN main.cnt + 1 ELSE main.cnt
        IN /\ orders' = ords
           /\ venue' = IF ok THEN VenueCancelled(venue, main.k) ELSE venue
           /\ LiveCancelAllNext(ords, main.k + 1, main.n, cnt, main.n0)
  /\ UNCHANGED <<ledger, scanner, run, engine, realistic_mode, notified, cached_books, cache_age, delayed, poller>>

\* ------------------------------------------------ LiveOrderManager.market_buy
LiveMarketBuy(side, size) ==
  /\ engine = "live"
  /\ main.pc = "idle"
  /\ Len(orders) < MaxOrders
  /\ main' = [Idle EXCEPT !.pc = "live_mkt_book", !.side = side, !.size = size]
  /\ ev' = Ev("market_buy:wait", 0, None)
  /\ UNCHANGED <<ledger, scanner, run, engine, realistic_mode, orders, notified, cached_books, cache_age, delayed, venue, poller>>

\* get_order_book has returned: lines 544-547.
LiveMarketBuyBook ==
  /\ engine = "live"
  /\ main.pc = "live_mkt_book"
  /\ \E o \in LiveBookOutcomes :
        LET a == best_ask(live_get_order_book(o))
        IN IF ~Truthy(a)
           THEN /\ main' = Idle
                /\ ev' = Ev("market_buy", 0, 0)
           ELSE /\ main' = [main EXCEPT !.pc = "live_mkt_place", !.price = a]
                /\ ev' = Ev("market_buy:wait", 0, a)
  /\ UNCHANGED <<ledger, scanner, run, engine, realistic_mode, orders, notified, cached_books, cache_age, delayed, venue, poller>>

\* -------------------------------------------- LiveOrderManager.get_order_book
LiveGetOrderBook(side) ==
  /\ engine = "live"
  /\ main.pc = "idle"
  /\ main' = [Idle EXCEPT !.pc = "live_gob", !.side = side]
  /\ ev' = OtherEv
  /\ UNCHANGED <<ledger, scanner, run, engine, realistic_mode, orders, notified, cached_books, cache_age, delayed, venue, poller>>

LiveGetOrderBookResume ==
  /\ engine = "live"
  /\ main.pc = "live_gob"
  /\ \E o \in LiveBookOutcomes : ev' = Ev("get_order_book", 0, best_ask(live_get_order_book(o)))
  /\ main' = Idle
  /\ UNCHANGED <<ledger, scanner, run, engine, realistic_mode, orders, notified, cached_books, cache_age, delayed, venue, poller>>

\* -------------------------------------- LiveOrderManager.refresh_order_status
LiveRefreshOrderStatus(id) ==
  /\ engine = "live"
  /\ main.pc = "idle"
  /\ id \in Ids \cup {0}
  /\ id \in Ids => notified[id] < MaxNotify
  /\ main' = [Idle EXCEPT !.pc = "live_refresh", !.id = id]
  /\ ev' = Ev("refresh_order_status:wait", id, None)
  /\ UNCHANGED <<ledger, scanner, run, engine, realistic_mode, orders, notified, cached_books, cache_age, delayed, venue, poller>>

\* client.get_order has returned or raised: lines 568-617 for order id.
Refreshed(id, r) ==
  LET o == ApplyResponse(orders[id], r)
  IN /\ orders' = [orders EXCEPT ![id] = o]
     /\ notified' = IF r.kind # "raise" /\ Notifies(o) THEN Bump(notified, id) ELSE notified

LiveRefreshResume ==
  /\ engine = "live"
  /\ main.pc = "live_refresh"
  /\ IF main.id \in Ids
     THEN \E r \in Responses(venue[main.id]) :
            /\ Refreshed(main.id, r)
            /\ ev' = Ev("refresh_order_status", main.id, 1)
     ELSE /\ ev' = Ev("refresh_order_status", main.id, 0)
          /\ UNCHANGED <<orders, notified>>
  /\ main' = Idle
  /\ UNCHANGED <<ledger, scanner, run, engine, realistic_mode, cached_books, cache_age, delayed, venue, poller>>

\* -------------------------------------------- LiveOrderManager.poll_for_fills
PollNext(ords, k, n) ==
  LET j == NextActive(ords, k, n)
  IN poller' = IF j = 0 THEN [PollerOff EXCEPT !.pc = "sleep"]
               ELSE [pc |-> "wait", k |-> j, n |-> n]

\* The sleep is over: the loop of lines 622-625 starts over the listed keys.
PollForFills ==
  /\ engine = "live"
  /\ poller.pc = "sleep"
  /\ PollNext(orders, 1, Len(orders))
  /\ ev' = OtherEv
  /\ UNCHANGED <<ledger, scanner, run, engine, realistic_mode, orders, notified, cached_books, cache_age, main, delayed, venue>>

\* The refresh_order_status the poll waited for returns; the loop goes on.
PollForFillsResume ==
  /\ engine = "live"
  /\ poller.pc = "wait"
  /\ \E r \in Responses(venue[poller.k]) :
        /\ Refreshed(poller.k, r)
        /\ PollNext([orders EXCEPT ![poller.k] = ApplyResponse(orders[poller.k], r)],
                    poller.k + 1, poller.n)
  /\ ev' = OtherEv
  /\ UNCHANGED <<ledger, scanner, run, engine, realistic_mode, cached_books, cache_age, main, delayed, venue>>

NextLive ==
  \/ \E id \in 1..MaxOrders : VenueFill(id)
  \/ \E s \in OrderSide, p \in LimitPrices, z \in Sizes : LivePlaceLimitBuy(s, p, z)
  \/ LivePlaceResume
  \/ \E id \in 0..MaxOrders : LiveCancelOrder(id)
  \/ LiveCancelResume
  \/ LiveCancelAllOrders
  \/ LiveCancelAllResume
  \/ \E s \in OrderSide, z \in Sizes : LiveMarketBuy(s, z)
  \/ LiveMarketBuyBook
  \/ \E s \in OrderSide : LiveGetOrderBook(s)
  \/ LiveGetOrderBookResume
  \/ \E id \in 0..MaxOrders : LiveRefreshOrderStatus(id)
  \/ LiveRefreshResume
  \/ PollForFills
  \/ PollForFillsResume

Next == NextPaper \/ NextLive

\* The paper engine in realistic mode, where no _delayed_fill task exists.
NextRealistic ==
  \/ Tick
  \/ \E s \in OrderSide, p \in LimitPrices, z \in Sizes : PaperPlaceLimitBuy(s, p, z)
  \/ PaperPlaceResume
  \/ \E id \in 0..MaxOrders : PaperCancelOrder(id)
  \/ PaperCancelAllOrders
  \/ PaperCheckPendingFills
  \/ PaperCheckPendingFillsResume
  \/ \E s \in OrderSide, z \in Sizes : PaperMarketBuy(s, z)
  \/ PaperMarketBuyResume
  \/ \E s \in OrderSide : PaperGetOrderBook(s)
  \/ PaperGetOrderBookResume
  \/ \E id \in 0..MaxOrders : PaperRefreshOrderStatus(id)

InitRealistic == Init /\ engine = "paper" /\ realistic_mode = TRUE

SpecRealistic == InitRealistic /\ [][NextRealistic]_vars

Spec == Init /\ [][Next]_vars

\* ============================================= place_limit_buy, by arguments
\* Prices are in cents, so the open interval (0, 1) is 1..99.  The arguments
\* a caller can pass are any numbers: the signature takes two floats.
AnyPrices == {-10, 0, 50, 100, 150}
AnySizes == {-5, 0, 5}

InitPlace == Init /\ engine = "paper"

NextPlace ==
  \/ Tick
  \/ \E s \in OrderSide, p \in AnyPrices, z \in AnySizes : PaperPlaceLimitBuy(s, p, z)
  \/ PaperPlaceResume

SpecPlace == InitPlace /\ [][NextPlace]_vars

\* ================================================ get_order_book, by outcome
\* The exception classes the fetches can raise; all derive from Exception.
FetchExceptions == {"TimeoutError", "ClientError", "ContentTypeError", "AttributeError"}

\* Lists of price levels as the venue can send them.
RawLevels ==
  { <<>>, << <<48, 10>> >>, << <<56, 8>>, <<48, 10>> >>, << <<0, 5>>, <<49, 0>> >>,
    << <<48, 10>>, <<48, 3>> >> }

\* What GET /book can do: answer 200 with a payload that parses, answer
\* another status, time out, fail in the client, or answer 200 with a body
\* that is no JSON or no dict.
RawFetches ==
  {[kind |-> "ok", bids |-> b, asks |-> a] : b \in RawLevels, a \in RawLevels}
  \cup {[kind |-> k, bids |-> <<>>, asks |-> <<>>] :
          k \in {"status", "timeout", "client_error", "not_json", "malformed"}}

\* Lines 190-219: how the try block of _fetch_live_order_book ends.
PaperFetchTry(o) ==
  CASE o.kind = "timeout" -> [end |-> "raise", exc |-> "TimeoutError", book |-> NoBook]
    [] o.kind = "client_error" -> [end |-> "raise", exc |-> "ClientError", book |-> NoBook]
    [] o.kind = "not_json" -> [end |-> "raise", exc |-> "ContentTypeError", book |-> NoBook]
    [] o.kind = "malformed" -> [end |-> "raise", exc |-> "AttributeError", book |-> NoBook]
    [] o.kind = "status" -> [end |-> "fall", exc |-> "", book |-> NoBook]
    [] OTHER ->
         LET bids == SortDesc(PositiveLevels(o.bids))
             asks == SortAsc(PositiveLevels(o.asks))
         IN IF bids # <<>> \/ asks # <<>>
            THEN [end |-> "return", exc |-> "", book |-> OrderBook(bids, asks)]
            ELSE [end |-> "fall", exc |-> "", book |-> NoBook]

\* A fetch whose only handler is the one for asyncio.TimeoutError.
PaperHandledTimeoutOnly(exc) == exc = "TimeoutError"

\* Lines 221-224: except asyncio.TimeoutError, then except Exception.
PaperHandled(exc) == exc = "TimeoutError" \/ exc \in FetchExceptions

\* _fetch_live_order_book as a whole: a book, or an exception that leaves it.
PaperFetch(o) ==
  LET t == PaperFetchTry(o)
  IN IF t.end = "return" THEN [raised |-> FALSE, book |-> t.book]
     ELSE IF t.end = "raise" /\ ~PaperHandled(t.exc) THEN [raised |-> TRUE, book |-> NoBook]
     ELSE [raised |-> FALSE, book |-> DefaultBook]

\* PaperOrderManager.get_order_book(side) on a stale cache, by the outcomes
\* of its two fetches.
PaperBookResult(oy, on, side) ==
  LET y == PaperFetch(oy)
      n == PaperFetch(on)
      cb == [s \in OrderSide |-> IF s = "YES" THEN y.book ELSE n.book]
  IN IF y.raised \/ n.raised THEN [raised |-> TRUE, book |-> NoBook]
     ELSE [raised |-> FALSE, book |-> CachedGet(cb, side)]

\* What client.get_order_book can do: raise, hand back None, or a summary.
RawSummaries ==
  {[kind |-> "ok", bids |-> b, asks |-> a] : b \in RawLevels, a \in RawLevels}
  \cup {[kind |-> k, bids |-> <<>>, asks |-> <<>>] : k \in {"raise", "none"}}

\* Line 557: except Exception.
LiveHandled(exc) == exc \in FetchExceptions

\* LiveOrderManager.get_order_book(side), by the outcome of the client call.
LiveBookResult(o) ==
  IF o.kind = "raise"
  THEN IF LiveHandled("ClientError") THEN [raised |-> FALSE, book |-> OrderBook(<<>>, <<>>)]
       ELSE [raised |-> TRUE, book |-> NoBook]
  ELSE [raised |-> FALSE, book |-> normalize_order_book_summary(o)]

PaperBookCall ==
  /\ engine = "paper"
  /\ \E oy \in RawFetches, on \in RawFetches, side \in OrderSide :
        ev' = Ev("get_order_book", [yes |-> oy, no |-> on, side |-> side],
                 PaperBookResult(oy, on, side))
  /\ UNCHANGED <<ledger, scanner, run, engine, realistic_mode, orders, notified, cached_books, cache_age,
                 main, delayed, venue, poller>>

LiveBookCall ==
  /\ engine = "live"
  /\ \E o \in RawSummaries, side \in OrderSide :
        ev' = Ev("get_order_book", [yes |-> o, no |-> o, side |-> side], LiveBookResult(o))
  /\ UNCHANGED <<ledger, scanner, run, engine, realistic_mode, orders, notified, cached_books, cache_age,
                 main, delayed, venue, poller>>

NextBook == PaperBookCall \/ LiveBookCall

SpecBook == Init /\ [][NextBook]_vars

\* ======================================== refresh_order_status, by response
\* What client.get_order can hand back when nothing is assumed about the
\* venue: an exception, a payload that is no dict, or a dict with any status
\* word and any numbers (or none) in its fill fields.
RawResponses ==
  {[kind |-> "raise", status |-> "", filled |-> None, avg |-> None],
   [kind |-> "object", status |-> "", filled |-> None, avg |-> None]}
  \cup {[kind |-> "dict", status |-> st, filled |-> f, avg |-> a] :
          st \in {"open", "filled", "cancelled", "unrecognised"},
          f \in {None, 0, 3, 5, 8}, a \in {None, 50}}

\* A live manager that holds one resting order, as place_limit_buy leaves it.
InitRefresh ==
  /\ InitLedger
  /\ InitScannerOff
  /\ InitRunOff
  /\ engine = "live"
  /\ realistic_mode = TRUE
  /\ \E s \in OrderSide, p \in LimitPrices, z \in Sizes :
        orders = <<Order(s, p, z, "OPEN", 0, 0)>>
  /\ notified = <<0>>
  /\ delayed = <<NoTask>>
  /\ venue = <<VenueOrder("open", 0, 0)>>
  /\ cached_books = [s \in OrderSide |-> NoBook]
  /\ cache_age = AgeCap
  /\ main = Idle
  /\ poller = PollerOff
  /\ ev = Ev("place_limit_buy", 1, 1)

\* refresh_order_status(id) from its call to its return, for one response.
RefreshApply ==
  /\ engine = "live"
  /\ \E id \in Ids, r \in RawResponses :
        /\ notified[id] < MaxNotify
        /\ Refreshed(id, r)
        /\ ev' = Ev("refresh_order_status", id, r)
  /\ UNCHANGED <<ledger, scanner, run, engine, realistic_mode, cached_books, cache_age, main, delayed,
                 venue, poller>>

NextRefresh == RefreshApply

SpecRefresh == InitRefresh /\ [][NextRefresh]_vars

\* ===================================================== run_fast_box_arb
\* Prices are in cents and sizes in shares; min_edge is in half cents (the
\* default 0.005 is 1); a quantity that a division gives is the pair
\* <<numerator, denominator>>.
MaxTtd == 2
MaxWindows == 2

\* FastArbParams.usd_per_attempt, in cents.
UsdPerAttempt == 500

\* FastArbParams.min_edge: the default and a stricter --edge.
MinEdges == {1, 10}

\* The names --order-type lets through, which OrderType has, and names it
\* has not (a caller of run_fast_box_arb can pass any string).
OrderTypeNames == {"FOK", "FAK", "GTC", "GTD"}

OrderTypeArgs == {"FOK", "GTC", "IOC"}

\* An order type taken from the parameter as it is.
OrderTypeAsGiven(name) == name

\* getattr(OrderType, name, OrderType.FOK)
OrderTypeOf(name) == IF name \in OrderTypeNames THEN name ELSE "FOK"

\* One entry of OrderBookSummary.asks: price and size are strings, which
\* float() parses or not.
Level(price, size) == [parses |-> TRUE, price |-> price, size |-> size]

BadLevel == [parses |-> FALSE, price |-> 0, size |-> 0]

UpAsks ==
  { <<>>, <<BadLevel>>, <<BadLevel, Level(47, 10)>>, <<Level(47, 10)>>, <<Level(47, 0)>>,
    <<Level(56, 8), Level(48, 10)>> }

DownAsks ==
  { <<>>, <<BadLevel>>, <<Level(49, 8)>>, <<Level(49, 3)>>, <<Level(53, 10)>> }

\* What get_order_books returns: n books (None and [] are n = 0), of which
\* the first two are the UP and the DOWN summary.
BookResponses ==
  [n : {0, 1, 3}, up : {<<>>}, down : {<<>>}] \cup [n : {2}, up : UpAsks, down : DownAsks]

\* A reader that passes over entries it cannot parse.
RECURSIVE FirstParsableAsk(_)
FirstParsableAsk(asks) ==
  IF asks = <<>> THEN <<>>
  ELSE IF ~asks[1].parses THEN FirstParsableAsk(Tail(asks))
  ELSE <<asks[1].price, asks[1].size>>

\* _best_ask: <<>> for None, else <<price, size>> of the first entry.
best_ask_of(asks) ==
  IF asks = <<>> THEN <<>>
  ELSE IF ~asks[1].parses THEN <<>>
  ELSE <<asks[1].price, asks[1].size>>

Min(a, b) == IF a <= b THEN a ELSE b

\* A size that stops at the target spend and ignores what the books offer.
SizedByUsdOnly(p_sum, s_up, s_down) ==
  IF p_sum <= 0 THEN <<Min(s_up, s_down), 1>> ELSE <<UsdPerAttempt, p_sum>>

\* Lines 143-144: q = min(usd_per_attempt / max(1e-9, p_sum), s_up, s_down).
\* With p_sum <= 0 the quotient is beyond any size a book holds.
Sized(p_sum, s_up, s_down) ==
  LET s == Min(s_up, s_down)
  IN IF p_sum <= 0 THEN <<s, 1>>
     ELSE IF UsdPerAttempt <= s * p_sum THEN <<UsdPerAttempt, p_sum>>
     ELSE <<s, 1>>

\* OrderArgs(token_id, price, size, side=BUY) with its order type.
LegOrder(token, price, q, ot) ==
  [token |-> token, side |-> "BUY", price |-> price, size |-> q, order_type |-> ot]

\* Time passes while the loop is suspended; the clock is followed down to
\* one unit past the deadline.
Later(t, dt) == IF t - dt < -1 THEN -1 ELSE t - dt

InitScanner ==
  /\ InitOrderManager
  /\ engine = "paper"
  /\ realistic_mode = TRUE
  /\ InitLedger
  /\ posted = <<>>
  /\ InitRunOff
  /\ \E c \in BOOLEAN, ot \in OrderTypeArgs, me \in MinEdges :
        scan = [ScanOff EXCEPT !.pc = "discover", !.continuous = c, !.order_type = ot,
                               !.min_edge = me]

\* Line 103-111: the next market, or RuntimeError when there is none.  The
\* market's expiry is what the discovery reports.
ScanDiscover ==
  /\ scan.pc = "discover"
  /\ scan.cycle < MaxWindows
  /\ \E found \in BOOLEAN, t \in {-1, MaxTtd} :
        scan' = IF found
                THEN [scan EXCEPT !.pc = "check", !.ttd = t, !.cycle = @ + 1, !.fills = 0,
                                  !.last = "none"]
                ELSE [scan EXCEPT !.pc = "raised", !.last = "no_market"]
  /\ UNCHANGED <<omvars, ledger, posted, run>>

\* A loop that still runs an iteration at the deadline itself.
ScanLoopHeadAtDeadline ==
  /\ scan.pc = "check"
  /\ scan' = [scan EXCEPT !.pc = IF scan.ttd >= 0 THEN "fetch"
                                 ELSE IF scan.continuous THEN "discover" ELSE "done"]
  /\ UNCHANGED <<omvars, ledger, posted, run>>

\* Line 113, and lines 171-173 when the condition is false.
ScanLoopHead ==
  /\ scan.pc = "check"
  /\ scan' = [scan EXCEPT !.pc = IF scan.ttd > 0 THEN "fetch"
                                 ELSE IF scan.continuous THEN "discover" ELSE "done"]
  /\ UNCHANGED <<omvars, ledger, posted, run>>

\* Lines 121-160 once get_order_books has returned, up to the next await:
\* the sleep of a skipped attempt, or post_orders.
ScanFetchReturnsWith(b, dt, created) ==
  LET up_ask == IF b.n = 2 THEN best_ask_of(b.up) ELSE <<>>
      down_ask == IF b.n = 2 THEN best_ask_of(b.down) ELSE <<>>
      t == Later(scan.ttd, dt)
      seen == [scan EXCEPT !.ttd = t, !.books = b]
  IN IF b.n # 2
     THEN scan' = [seen EXCEPT !.pc = "sleep", !.last = "no_books"] /\ UNCHANGED posted
     ELSE IF up_ask = <<>> \/ down_ask = <<>>
     THEN scan' = [seen EXCEPT !.pc = "sleep", !.last = "no_ask"] /\ UNCHANGED posted
     ELSE LET p_sum == up_ask[1] + down_ask[1]
              q == Sized(p_sum, up_ask[2], down_ask[2])
              ot == OrderTypeOf(scan.order_type)
          IN IF 2 * (100 - p_sum) < scan.min_edge
             THEN scan' = [seen EXCEPT !.pc = "sleep", !.last = "edge"] /\ UNCHANGED posted
             ELSE IF q[1] <= 0
             THEN scan' = [seen EXCEPT !.pc = "sleep", !.last = "size"] /\ UNCHANGED posted
             ELSE IF ~created
             THEN scan' = [seen EXCEPT !.pc = "raised", !.last = "create_error"] /\ UNCHANGED posted
             ELSE /\ scan' = [seen EXCEPT !.pc = "post"]
                  /\ posted' = Append(posted, <<LegOrder("UP", up_ask[1], q, ot),
                                                LegOrder("DOWN", down_ask[1], q, ot)>>)

ScanFetchReturns ==
  /\ scan.pc = "fetch"
  /\ \E b \in BookResponses, dt \in {0, 1}, created \in BOOLEAN : ScanFetchReturnsWith(b, dt, created)
  /\ UNCHANGED <<omvars, ledger, run>>

\* get_order_books raised: nothing in the loop catches it, the finally
\* clause closes the discovery and the exception leaves run_fast_box_arb.
ScanFetchRaises ==
  /\ scan.pc = "fetch"
  /\ scan' = [scan EXCEPT !.pc = "raised", !.last = "fetch_error"]
  /\ UNCHANGED <<omvars, ledger, posted, run>>

\* Lines 162-169 once post_orders has returned.
ScanPostReturns ==
  /\ scan.pc = "post"
  /\ \E dt \in {0, 1} :
        scan' = [scan EXCEPT !.pc = "sleep", !.fills = @ + 1, !.last = "posted",
                             !.ttd = Later(@, dt)]
  /\ UNCHANGED <<omvars, ledger, posted, run>>

\* post_orders raised: as for get_order_books.
ScanPostRaises ==
  /\ scan.pc = "post"
  /\ scan' = [scan EXCEPT !.pc = "raised", !.last = "post_error"]
  /\ UNCHANGED <<omvars, ledger, posted, run>>

\* asyncio.sleep(poll_interval_s) is over: back to line 113.
ScanSleepEnds ==
  /\ scan.pc = "sleep"
  /\ scan' = [scan EXCEPT !.pc = "check", !.ttd = Later(@, 1)]
  /\ UNCHANGED <<omvars, ledger, posted, run>>

NextScanner ==
  \/ ScanDiscover
  \/ ScanLoopHead
  \/ ScanFetchReturns
  \/ ScanFetchRaises
  \/ ScanPostReturns
  \/ ScanPostRaises
  \/ ScanSleepEnds

SpecScanner == InitScanner /\ [][NextScanner]_vars

\* ==================================================== run_with_discovery
\* os.getenv of a variable that is not set returns the default.
Unset == "<unset>"

TradingModes == {Unset, "paper", "live", "LIVE"}
PrivateKeys == {Unset, "", "0xkey"}
ApiValues == {"", "set"}

Envs ==
  [TRADING_MODE : TradingModes, POLYMARKET_PRIVATE_KEY : PrivateKeys,
   POLYMARKET_API_KEY : ApiValues, POLYMARKET_API_SECRET : ApiValues,
   POLYMARKET_API_PASSPHRASE : ApiValues]

getenv(env, name, default) == IF env[name] = Unset THEN default ELSE env[name]

\* str.lower on the values of TradingModes
lower(s) == IF s = "LIVE" THEN "live" ELSE s

\* config.py load_config: the fields the entry points read.  The test for
\* the private key compares TRADING_MODE as it is; paper_mode compares it
\* in lower case.
load_config(env) ==
  LET private_key == getenv(env, "POLYMARKET_PRIVATE_KEY", "")
      raised == private_key = "" /\ getenv(env, "TRADING_MODE", "paper") = "live"
  IN [raised |-> raised,
      private_key |-> private_key,
      api_key |-> env["POLYMARKET_API_KEY"],
      api_secret |-> env["POLYMARKET_API_SECRET"],
      api_passphrase |-> env["POLYMARKET_API_PASSPHRASE"],
      paper_mode |-> lower(getenv(env, "TRADING_MODE", "paper")) = "paper"]

\* The order-manager state, which run_with_discovery's own steps leave alone
\* (the window's manager is counted in run.active).
managers ==
  <<engine, realistic_mode, orders, notified, cached_books, cache_age, main, delayed,
    venue, poller>>

\* Where the loop goes when a window is over: line 207-208 and 220-221.
AfterWindow(r, raising) ==
  IF r.continuous THEN "head" ELSE IF raising THEN "raised" ELSE "done"

\* start_cycle (line 120) followed by the except clause of line 216-219:
\* the cycle just started is closed as STOPPED.
LedgerStartThenStop ==
  LET cy == Append(cycles, [CycleRecord EXCEPT !.status = "STOPPED"])
  IN /\ cycles' = cy
     /\ current_cycle' = <<>>
     /\ log_file' = SessionData(trades, cy)
     /\ durable' = Len(trades)
     /\ lev' = LEv("complete_cycle", "ok")
     /\ UNCHANGED <<trades, saving, faults>>

\* complete_cycle(status, locked_profit) as the loop and the bot call it,
\* the save going through.
LedgerClose(status, locked_profit) ==
  IF current_cycle = <<>>
  THEN /\ lev' = LEv("complete_cycle", "no cycle")
       /\ UNCHANGED <<trades, cycles, current_cycle, log_file, saving, durable, faults>>
  ELSE LET cy == Append(cycles, [current_cycle[1] EXCEPT !.status = status,
                                                         !.locked_profit = locked_profit])
       IN /\ cycles' = cy
          /\ current_cycle' = <<>>
          /\ log_file' = SessionData(trades, cy)
          /\ durable' = Len(trades)
          /\ lev' = LEv("complete_cycle", "ok")
          /\ UNCHANGED <<trades, saving, faults>>

\* Line 84-88: the configuration is loaded and the paper_mode argument
\* replaces the one of the configuration.
RunCall ==
  /\ run.pc = "off"
  /\ \E env \in Envs, pm \in BOOLEAN, c \in BOOLEAN :
        LET config == load_config(env)
        IN /\ ev' = Ev("load_config", env, config)
           /\ run' = IF config.raised
                     THEN [RunOff EXCEPT !.pc = "raised"]
                     ELSE [RunOff EXCEPT !.pc = "head", !.paper_mode = pm, !.continuous = c,
                                         !.creds = /\ config.api_key # ""
                                                   /\ config.api_secret # ""
                                                   /\ config.api_passphrase # ""]
  /\ UNCHANGED <<managers, ledger, scanner>>

\* Line 104-109: no market is found, auto_discover_market raises, and the
\* except clause of line 214-221 closes whatever cycle is open.
RunDiscoveryFails ==
  /\ run.pc = "head"
  /\ run.windows < MaxWindows
  /\ LedgerClose("STOPPED", 0)
  /\ run' = [run EXCEPT !.windows = @ + 1, !.pc = AfterWindow(run, TRUE)]
  /\ ev' = Ev("window", run.windows + 1, "no market")
  /\ UNCHANGED <<managers, scanner>>

\* Line 104-176: a market is found, start_cycle replaces current_cycle, and
\* a new order manager is made; the one of the window before is dropped
\* with whatever orders it still holds active.  In live mode without the
\* three API credentials line 138-142 raises ValueError into the except
\* clause of line 214-221.
RunWindowStart ==
  /\ run.pc = "head"
  /\ run.windows < MaxWindows
  /\ IF run.paper_mode \/ run.creds
     THEN /\ current_cycle' = <<CycleRecord>>
          /\ lev' = LEv("start_cycle", "ok")
          /\ UNCHANGED <<trades, cycles, log_file, saving, durable, faults>>
          /\ run' = [run EXCEPT !.windows = @ + 1, !.pc = "bot", !.active = 0,
                                !.resting = run.resting + run.active]
          /\ ev' = Ev("window", run.windows + 1, "started")
     ELSE /\ LedgerStartThenStop
          /\ run' = [run EXCEPT !.windows = @ + 1, !.pc = AfterWindow(run, TRUE)]
          /\ ev' = Ev("window", run.windows + 1, "no credentials")
  /\ UNCHANGED <<managers, scanner>>

\* The bot of the window, through the order manager it was given: an order
\* is left resting.
BotPlacesOrder ==
  /\ run.pc = "bot"
  /\ run.active < MaxOrders
  /\ run' = [run EXCEPT !.active = @ + 1]
  /\ ev' = Ev("bot", run.windows, "order")
  /\ UNCHANGED <<managers, ledger, scanner>>

\* The bot of the window, through the logger it was given: the cycle is
\* closed as locked.
BotCompletesCycle ==
  /\ run.pc = "bot"
  /\ current_cycle # <<>>
  /\ LedgerClose("LOCKED", 3)
  /\ ev' = Ev("bot", run.windows, "locked")
  /\ UNCHANGED <<managers, scanner, run>>

\* Line 199-205: wait_for timed out: cancel_all_orders, then EXPIRED for
\* the cycle that is still open.  The paper sweep cancels every active
\* order; the live sweep leaves those whose cancel failed.
BotTimesOut ==
  /\ run.pc = "bot"
  /\ \E k \in 0..run.active :
        /\ run.paper_mode => k = run.active
        /\ run' = [run EXCEPT !.active = @ - k, !.sweeps = @ + 1, !.ended = "timeout",
                              !.pc = AfterWindow(run, FALSE)]
  /\ LedgerClose("EXPIRED", 0)
  /\ ev' = Ev("window", run.windows, "timeout")
  /\ UNCHANGED <<managers, scanner>>

\* Line 214-221: bot.run raised: STOPPED for the cycle that is still open,
\* and nothing else.
BotRaises ==
  /\ run.pc = "bot"
  /\ LedgerClose("STOPPED", 0)
  /\ run' = [run EXCEPT !.ended = "error", !.pc = AfterWindow(run, TRUE)]
  /\ ev' = Ev("window", run.windows, "error")
  /\ UNCHANGED <<managers, scanner>>

\* Line 194-208: bot.run returned before the timeout: the try statement
\* has no else clause.
BotReturns ==
  /\ run.pc = "bot"
  /\ run' = [run EXCEPT !.ended = "returned", !.pc = AfterWindow(run, FALSE)]
  /\ ev' = Ev("window", run.windows, "returned")
  /\ UNCHANGED <<managers, ledger, scanner>>

NextMain ==
  \/ RunCall
  \/ RunDiscoveryFails
  \/ RunWindowStart
  \/ BotPlacesOrder
  \/ BotCompletesCycle
  \/ BotTimesOut
  \/ BotRaises
  \/ BotReturns

InitMain == Init /\ engine = "paper" /\ realistic_mode = TRUE

SpecMain == InitMain /\ [][NextMain]_vars

\* ================================================================ claims
\* ---------------------------------------------------------------- ledger
\* C4 (as claimed): the session file is overwritten atomically, so a logger
\* constructed after a crash or restart holds at least the trades that the
\* last completed save wrote.
C4_NoTradeLostAcrossRestart ==
  lev.op = "restart" => Len(trades) >= durable

\* C5: once record_trade, or complete_cycle with a cycle open, has returned
\* normally, the session file is a JSON document whose trades and cycles are
\* the lists held in memory at that moment.
C5_FileEqualsMemoryAfterSave ==
  (saving = "" /\ lev.op \in {"record_trade", "complete_cycle"} /\ lev.ret = "ok")
    => /\ log_file.state = "json"
       /\ LoadedTrades(log_file) = trades
       /\ LoadedCycles(log_file) = cycles

\* A cycle with one leg bought was closed after trades were recorded, and
\* complete_cycle's save has returned.
C5_Witness ==
  /\ saving = ""
  /\ lev = LEv("complete_cycle", "ok")
  /\ Len(trades) = MaxTrades
  /\ \E i \in DOMAIN cycles : cycles[i].up_entry_price = None /\ cycles[i].down_entry_price # None

\* --------------------------------------------------------- order managers
\* C1 (as claimed): in the paper engine an order that cancel_order or
\* cancel_all_orders has set to CANCELLED stays CANCELLED, and the fill
\* callback is never invoked for it afterwards, whatever tasks interleave.
C1_PaperCancelIsFinal ==
  [][engine = "paper" =>
       \A i \in Ids : orders[i].status = "CANCELLED" =>
          /\ orders'[i].status = "CANCELLED"
          /\ notified'[i] = notified[i]]_vars

\* C2 (as claimed): in either engine the fill callback is invoked at most
\* once for an order id.
C2_CallbackAtMostOncePerOrder ==
  \A i \in Ids : notified[i] <= 1

\* C3 (as claimed): once an order is CANCELLED, FILLED or REJECTED, no step
\* changes its status, its filled quantity or its average fill price.
C3_TerminalOrdersImmutable ==
  [][\A i \in Ids : orders[i].status \in Terminal =>
        /\ orders'[i].status = orders[i].status
        /\ orders'[i].filled_qty = orders[i].filled_qty
        /\ orders'[i].filled_avg_price = orders[i].filled_avg_price]_vars

\* C6 (as claimed): in both engines cancel_order returns false and changes
\* no order when the id is unknown or the order is terminal; otherwise it
\* sets that order to CANCELLED, changes no other order and returns true.
C6_CancelOrderContract ==
  [][ev'.op = "cancel_order" =>
       IF ev'.id \in Ids /\ is_active(orders[ev'.id])
       THEN /\ ev'.ret = 1
            /\ orders' = [orders EXCEPT ![ev'.id].status = "CANCELLED"]
       ELSE /\ ev'.ret = 0
            /\ orders' = orders]_vars

\* All orders of ords that are active set to CANCELLED, the others as they are.
AllActiveCancelled(ords) ==
  [i \in DOMAIN ords |-> IF is_active(ords[i]) THEN [ords[i] EXCEPT !.status = "CANCELLED"]
                         ELSE ords[i]]

\* C7 (as claimed): in either engine, when cancel_all_orders returns, the N
\* orders that were active at the call are CANCELLED (none is active any
\* more), no terminal order was touched, the result is N, and a second call
\* right after it returns 0 at once and changes nothing.
C7_CancelAllCancelsEveryActiveOrder ==
  [][/\ ev'.op = "cancel_all_orders" =>
          /\ ActiveCount(orders') = 0
          /\ ev'.ret = (IF main.pc = "live_cancel_all" THEN main.n0 ELSE ActiveCount(orders))
          /\ \A i \in Ids : orders[i].status \in Terminal => orders'[i] = orders[i]
     /\ (ev.op = "cancel_all_orders" /\ ev'.op \in {"cancel_all_orders", "cancel_all_orders:wait"})
          => (ev'.op = "cancel_all_orders" /\ ev'.ret = 0 /\ orders' = orders)]_vars

\* C7 (amended): the paper sweep cancels exactly the active orders, leaves
\* the others as they are and returns their number, and a second sweep right
\* after it returns 0 and changes nothing.  The live sweep asks the venue to
\* cancel each order that is active when the sweep reaches it; each of its
\* steps changes only that order, sets it to CANCELLED and counts it when the
\* venue cancel returned, leaves it as it is and does not count it when the
\* venue cancel failed; it returns the count, and returns 0 at once, changing
\* nothing, when no order is active at the call.
C7_CancelAllBestEffort ==
  [][/\ (engine = "paper" /\ ev'.op = "cancel_all_orders") =>
          /\ orders' = AllActiveCancelled(orders)
          /\ ev'.ret = ActiveCount(orders)
          /\ ActiveCount(orders') = 0
          /\ ev.op = "cancel_all_orders" => (ev'.ret = 0 /\ orders' = orders)
     /\ (engine = "live" /\ main.pc = "idle"
           /\ ev'.op \in {"cancel_all_orders", "cancel_all_orders:wait"}) =>
          /\ orders' = orders
          /\ IF ActiveCount(orders) = 0
             THEN ev'.op = "cancel_all_orders" /\ ev'.ret = 0
             ELSE /\ ev'.op = "cancel_all_orders:wait"
                  /\ main'.cnt = 0
                  /\ is_active(orders[main'.k])
     /\ (engine = "live" /\ main.pc = "live_cancel_all" /\ main' # main) =>
          LET k == main.k
              c == IF main'.pc = "live_cancel_all" THEN main'.cnt ELSE ev'.ret
          IN /\ \A i \in Ids \ {k} : orders'[i] = orders[i]
             /\ \/ /\ orders'[k] = [orders[k] EXCEPT !.status = "CANCELLED"]
                   /\ c = main.cnt + 1
                \/ /\ orders'[k] = orders[k]
                   /\ c = main.cnt
             /\ main'.pc = "live_cancel_all" => is_active(orders'[main'.k])]_vars

\* A live sweep over two resting orders has returned 1: the venue cancel of
\* one order failed and that order is still active.
C7_Witness ==
  /\ engine = "live"
  /\ ev = Ev("cancel_all_orders", 0, 1)
  /\ \E i \in Ids : orders[i].status = "CANCELLED"
  /\ \E i \in Ids : is_active(orders[i])

\* The best ask of the book get_order_book hands back for side s once the
\* step is over.
AskAfter(s) == best_ask(CachedGet(cached_books', s))

\* C8: in realistic mode place_limit_buy and check_pending_fills fill a limit
\* order only while the best ask observed for its side exists and is at or
\* below the order's price, the average fill price is that ask and so never
\* above the limit, and no delayed fill is ever scheduled.
C8_RealisticFillsOnlyAtObservedAsk ==
  [][(engine = "paper" /\ realistic_mode) =>
       /\ \A i \in DOMAIN delayed' : delayed'[i] = NoTask
       /\ ev'.op \in {"place_limit_buy", "check_pending_fills", "check_pending_fills:wait"} =>
            \A i \in DOMAIN orders' :
               (orders'[i].status = "FILLED" /\ (i \in Ids => orders[i].status # "FILLED")) =>
                  /\ AskAfter(orders'[i].side) # None
                  /\ AskAfter(orders'[i].side) <= orders'[i].price
                  /\ orders'[i].filled_avg_price = AskAfter(orders'[i].side)
                  /\ orders'[i].filled_avg_price <= orders'[i].price]_vars

\* check_pending_fills has filled a resting order below its limit price.
C8_Witness ==
  /\ engine = "paper"
  /\ realistic_mode
  /\ ev.op = "check_pending_fills"
  /\ ev.ret >= 1
  /\ \E i \in Ids : orders[i].status = "FILLED" /\ orders[i].filled_avg_price < orders[i].price

\* C9: in realistic mode place_limit_buy returns the order FILLED in full at
\* the best ask, with the callback invoked, when the price is at or above
\* the ask it observes, and OPEN and unfilled otherwise; an OPEN order is
\* changed only by the check_pending_fills that observes an ask at or below
\* its price, which fills it, or by a cancel; every other check leaves it
\* OPEN.
C9_RealisticPlaceAndRest ==
  [][(engine = "paper" /\ realistic_mode) =>
       /\ ev'.op = "place_limit_buy" =>
            LET i == ev'.id
                o == orders'[i]
            IN /\ ev'.ret = 1
               /\ IF AskAfter(o.side) # None /\ o.price >= AskAfter(o.side)
                  THEN /\ o.status = "FILLED"
                       /\ o.filled_qty = o.size
                       /\ o.filled_avg_price = AskAfter(o.side)
                       /\ notified'[i] = 1
                  ELSE /\ o.status = "OPEN"
                       /\ o.filled_qty = 0
                       /\ notified'[i] = 0
       /\ ev'.op \in {"check_pending_fills", "check_pending_fills:wait"} =>
            LET first == IF main.pc = "cpf_fetch" THEN main.k ELSE 1
                n == IF main.pc = "cpf_fetch" THEN main.n ELSE Len(orders)
                last == IF main'.pc = "cpf_fetch" THEN main'.k - 1 ELSE n
            IN \A i \in Ids : orders[i].status = "OPEN" =>
                  IF i \in first..last /\ AskAfter(orders[i].side) # None
                       /\ AskAfter(orders[i].side) <= orders[i].price
                  THEN /\ orders'[i] = Filled(orders[i], AskAfter(orders[i].side))
                       /\ notified'[i] = notified[i] + 1
                  ELSE /\ orders'[i] = orders[i]
                       /\ notified'[i] = notified[i]
       /\ \A i \in Ids : (orders[i].status = "OPEN" /\ orders'[i] # orders[i]) =>
             \/ ev'.op \in {"check_pending_fills", "check_pending_fills:wait"}
             \/ ev'.op \in {"cancel_order", "cancel_all_orders"} /\ orders'[i].status = "CANCELLED"
             \/ ev'.op = "place_limit_buy" /\ ev'.id = i]_vars

\* One order was filled when it was placed, and a check_pending_fills has
\* returned without filling the other, which rests OPEN.
C9_Witness ==
  /\ engine = "paper"
  /\ realistic_mode
  /\ ev = Ev("check_pending_fills", 0, 0)
  /\ \E i \in Ids : orders[i].status = "OPEN" /\ notified[i] = 0
  /\ \E i \in Ids : orders[i].status = "FILLED" /\ notified[i] = 1

\* C10 (as claimed): in both engines market_buy either fails, registering no
\* order and invoking no callback, which it does when the book it observes
\* has no ask, or returns an order FILLED for the full size at the best ask
\* it observed.
C10_MarketBuyContract ==
  [][ev'.op = "market_buy" =>
       IF ev'.ret = 0
       THEN orders' = orders /\ notified' = notified
       ELSE LET o == orders'[ev'.id]
                a == IF engine = "paper" THEN AskAfter(o.side) ELSE main.price
            IN /\ a # None
               /\ o.status = "FILLED"
               /\ o.filled_qty = o.size
               /\ o.filled_avg_price = a]_vars

\* A value is an OrderBook: two lists of <<price, size>> levels.
IsOrderBook(b) ==
  /\ DOMAIN b = {"bids", "asks"}
  /\ \A i \in DOMAIN b.bids : Len(b.bids[i]) = 2 /\ b.bids[i] # <<None, None>>
  /\ \A i \in DOMAIN b.asks : Len(b.asks[i]) = 2 /\ b.asks[i] # <<None, None>>

\* C11: get_order_book of either engine hands back an OrderBook and lets no
\* exception out, whatever the fetch does (answers, times out, answers with
\* another status or an unreadable body, fails in the client, has no levels);
\* the paper engine's book is then what _fetch_live_order_book computes.
C11_GetOrderBookNeverRaises ==
  ev.op = "get_order_book" =>
     /\ ev.ret.raised = FALSE
     /\ IsOrderBook(ev.ret.book)
     /\ (engine = "paper" /\ ev.id[IF ev.id.side = "YES" THEN "yes" ELSE "no"].kind
                               \in {"timeout", "malformed"})
          => ev.ret.book = DefaultBook

\* The YES fetch timed out, the NO fetch answered with asks only, and the
\* call for the YES side handed back the default book.
C11_Witness ==
  /\ engine = "paper"
  /\ ev.op = "get_order_book"
  /\ ev.id.side = "YES"
  /\ ev.id.yes.kind = "timeout"
  /\ ev.id.no.kind = "ok"
  /\ ev.ret = [raised |-> FALSE, book |-> DefaultBook]

\* Where the caller task waits for a refresh of the paper book cache.
FetchPcs == {"place_fetch", "cpf_fetch", "mkt_fetch", "gob_fetch"}

\* This step ends a refresh: a get_order_book that was waiting for its two
\* fetches stores them and goes on.
RefreshEnds ==
  \/ main.pc \in FetchPcs /\ main' # main
  \/ \E i \in Ids : delayed[i] = "fetching" /\ delayed'[i] # "fetching"

\* Every change of the cache is the store of one refresh, which replaces the
\* YES and the NO book in the same step; no side is ever cached alone.
StoredTogether ==
  /\ (cached_books'["YES"] = NoBook) <=> (cached_books'["NO"] = NoBook)
  /\ cached_books' # cached_books => RefreshEnds
  /\ RefreshEnds => (cached_books'["YES"] # NoBook /\ cached_books'["NO"] # NoBook)

\* While the cache is within its bound no get_order_book starts a fetch, and
\* a place_limit_buy made then decides on the cached book.
FreshCallsUseCache ==
  cache_age <= CacheTtl =>
     /\ main.pc = "idle" => main'.pc = "idle"
     /\ \A i \in Ids : delayed[i] = "sleeping" => delayed'[i] # "fetching"
     /\ (main.pc = "idle" /\ ev'.op = "place_limit_buy") =>
          LET o == orders'[ev'.id]
              a == best_ask(CachedGet(cached_books, o.side))
          IN o.status = "FILLED" <=> (a # None /\ a <= o.price)

\* C12 (as claimed): the cached YES and NO books are always the pair one
\* refresh stored, and a call made within the staleness bound of the last
\* refresh, so also one made the moment that refresh has ended, performs no
\* fetch and is served from the cache.
C12_CacheReusedAfterEveryRefresh ==
  [][engine = "paper" =>
       /\ StoredTogether
       /\ FreshCallsUseCache
       /\ RefreshEnds => cache_age' <= CacheTtl]_vars

\* C12 (amended): the cached YES and NO books are always the pair one
\* refresh stored, and the staleness bound counts from the moment the
\* refreshing call started (_cache_time), not from the end of its fetches: a
\* call made while time.time() - _cache_time is within the bound performs no
\* fetch and is served from the cache, a call made later starts a refresh,
\* and a refresh leaves behind the age its own fetches took, which may
\* already exceed the bound.
C12_CacheBoundCountsFromRefreshStart ==
  [][engine = "paper" =>
       /\ StoredTogether
       /\ FreshCallsUseCache
       /\ RefreshEnds => cache_age' \in FetchAges
       /\ (cache_age > CacheTtl /\ main.pc = "idle")
            => ev'.op \notin {"place_limit_buy", "market_buy"}]_vars

\* A place_limit_buy has returned one time unit after a refresh: it was
\* served from the cache (a refresh of its own would have reset the age).
C12_Witness ==
  /\ engine = "paper"
  /\ ev.op = "place_limit_buy"
  /\ cache_age = CacheTtl
  /\ cached_books["YES"] # NoBook

\* C13 (as claimed): every order in the table has filled_qty <= size in
\* every reachable state, also after refresh_order_status has applied a
\* response of the venue.
C13_FilledQtyAtMostSize ==
  \A i \in Ids : orders[i].filled_qty <= orders[i].size

\* C14 (as claimed): in the live engine a refresh_order_status, called
\* directly or by poll_for_fills, that moves an order from active to FILLED
\* invokes the fill callback for it in the same step, whatever the response
\* holds in its fill fields, so no order is FILLED that was never notified.
C14_LiveFillTransitionNotifies ==
  [][engine = "live" =>
       /\ \A i \in Ids : (is_active(orders[i]) /\ orders'[i].status = "FILLED")
                            => notified'[i] = notified[i] + 1
       /\ \A i \in DOMAIN orders' : orders'[i].status = "FILLED" => notified'[i] >= 1]_vars

\* C15: in the live engine a venue failure during cancel_order comes back as
\* false with every order as it was; a cancel_all_orders sweep goes on after
\* a failed cancel to the next order that is active, ends only when none is
\* left to try, and counts exactly the orders it set to CANCELLED.
C15_LiveCancelFailuresAreContained ==
  [][engine = "live" =>
       /\ ev'.op = "cancel_order" =>
            /\ ev'.ret \in {0, 1}
            /\ main'.pc = "idle"
            /\ ev'.ret = 0 => orders' = orders
       /\ (main.pc = "live_cancel_all" /\ main' # main) =>
            LET k == main.k
                c == IF main'.pc = "live_cancel_all" THEN main'.cnt ELSE ev'.ret
                set == orders'[k].status = "CANCELLED" /\ orders[k].status # "CANCELLED"
                j == NextActive(orders', k + 1, main.n)
            IN /\ c = main.cnt + (IF set THEN 1 ELSE 0)
               /\ ~set => orders' = orders
               /\ IF j = 0
                  THEN main'.pc = "idle" /\ ev'.op = "cancel_all_orders"
                  ELSE main'.pc = "live_cancel_all" /\ main'.k = j]_vars

\* A sweep over two resting orders has returned 1: the cancel of the first
\* order failed, and the sweep still went on and cancelled the second.
C15_Witness ==
  /\ engine = "live"
  /\ ev = Ev("cancel_all_orders", 0, 1)
  /\ Len(orders) = 2
  /\ orders[1].status = "OPEN"
  /\ orders[2].status = "CANCELLED"

\* C16: place_limit_buy accepts only a price strictly between 0 and 1 and a
\* size greater than 0, so every order in the table has 0 < price < 1 and
\* size > 0 (prices in cents: 0 < price < 100).
C16_OnlyValidOrdersInTable ==
  \A i \in DOMAIN orders : orders[i].price > 0 /\ orders[i].price < 100 /\ orders[i].size > 0

C18_RestartKeepsInterruptedCycle ==
  [][(lev'.op = "restart" /\ current_cycle # <<>> /\ log_file.state # "absent") =>
       /\ current_cycle' = <<>>
       /\ cycles' = cycles
       /\ Len(trades') >= durable]_vars

\* C19 (as claimed): a cycle stops being the current cycle only by being
\* appended to the closed cycles with status LOCKED, STOPPED or EXPIRED, and
\* no ledger operation changes a closed cycle.
C19_CycleClosedExactlyOnce ==
  [][lev'.op \in {"start_cycle", "record_trade", "complete_cycle"} =>
       /\ (lev'.op # "record_trade" /\ current_cycle # <<>> /\ current_cycle' # current_cycle)
            => /\ Len(cycles') = Len(cycles) + 1
               /\ cycles'[Len(cycles')].status \in {"LOCKED", "STOPPED", "EXPIRED"}
       /\ \A i \in DOMAIN cycles : i \in DOMAIN cycles' /\ cycles'[i] = cycles[i]]_vars

\* C20: after a record_trade made while a cycle is current, the cycle's
\* total_cost is up_entry_price*up_entry_qty + down_entry_price*down_entry_qty
\* with an unset leg counting as 0; the call sets the entry of one leg (up
\* for YES/UP, down for NO/DOWN) from the trade and leaves the other leg and
\* the rest of the cycle as they were; with no current cycle it only appends
\* the trade.
C20_RecordTradeUpdatesOneLeg ==
  [][(lev'.op = "record_trade" /\ Len(trades') = Len(trades) + 1) =>
       LET t == trades'[Len(trades')]
       IN /\ trades' = Append(trades, t)
          /\ cycles' = cycles
          /\ IF current_cycle = <<>>
             THEN current_cycle' = <<>>
             ELSE LET c == current_cycle[1]
                      d == current_cycle'[1]
                      up == IF d.up_entry_price = None \/ d.up_entry_qty = None
                            THEN 0 ELSE d.up_entry_price * d.up_entry_qty
                      down == IF d.down_entry_price = None \/ d.down_entry_qty = None
                              THEN 0 ELSE d.down_entry_price * d.down_entry_qty
                  IN /\ d.total_cost = up + down
                     /\ d.status = c.status
                     /\ d.locked_profit = c.locked_profit
                     /\ t.side \in {"YES", "UP"} =>
                          /\ d.up_entry_price = t.price /\ d.up_entry_qty = t.quantity
                          /\ d.down_entry_price = c.down_entry_price
                          /\ d.down_entry_qty = c.down_entry_qty
                     /\ t.side \in {"NO", "DOWN"} =>
                          /\ d.down_entry_price = t.price /\ d.down_entry_qty = t.quantity
                          /\ d.up_entry_price = c.up_entry_price
                          /\ d.up_entry_qty = c.up_entry_qty]_vars

\* Two trades on the same leg were recorded in one cycle: the second entry
\* replaced the first, and the total cost is that of the one leg.
C20_Witness ==
  /\ lev = LEv("record_trade", "ok")
  /\ current_cycle # <<>>
  /\ Len(trades) = 2
  /\ trades[1].side = "YES"
  /\ trades[2].side = "YES"
  /\ current_cycle[1].down_entry_price = None
  /\ current_cycle[1].total_cost = 235

\* C21: complete_cycle with status LOCKED and profit p on an open cycle
\* raises locked_cycles, completed_cycles and total_cycles of get_stats by 1
\* each, adds p to gross_profit when p > 0 and |p| to gross_loss otherwise
\* (money in half cents), and leaves stopped_cycles and expired_cycles as they
\* were; complete_cycle with no open cycle leaves every statistic as it was.
C21_LockedCycleInStats ==
  [][(saving = "" /\ lev'.op = "complete_cycle") =>
       LET a == get_stats(trades, cycles)
           b == get_stats(trades', cycles')
       IN /\ current_cycle = <<>> => b = a
          /\ (current_cycle # <<>> /\ Len(cycles') = Len(cycles) + 1
                /\ cycles'[Len(cycles')].status = "LOCKED") =>
               LET p == cycles'[Len(cycles')].locked_profit
               IN /\ b.locked_cycles = a.locked_cycles + 1
                  /\ b.completed_cycles = a.completed_cycles + 1
                  /\ b.total_cycles = a.total_cycles + 1
                  /\ b.stopped_cycles = a.stopped_cycles
                  /\ b.expired_cycles = a.expired_cycles
                  /\ b.total_trades = a.total_trades
                  /\ b.gross_profit = a.gross_profit + (IF p > 0 THEN 2 * p ELSE 0)
                  /\ b.gross_loss = a.gross_loss + (IF p > 0 THEN 0 ELSE 2 * (IF p < 0 THEN -p ELSE p))
          /\ (current_cycle # <<>>) => Len(cycles') = Len(cycles) + 1]_vars

\* Two cycles were locked, one with a profit and one with a loss, and the
\* statistics carry both.
C21_Witness ==
  /\ lev.op = "complete_cycle"
  /\ Len(cycles) = 2
  /\ cycles[1].status = "LOCKED" /\ cycles[1].locked_profit = 3
  /\ cycles[2].status = "LOCKED" /\ cycles[2].locked_profit = -2
  /\ get_stats(trades, cycles).gross_profit = 6
  /\ get_stats(trades, cycles).gross_loss = 4

\* The closed cycles with a given status.
WithStatus(cy, st) == {i \in DOMAIN cy : cy[i].status = st}

\* What one closed cycle adds to the gross loss, in half cents: |locked_profit|
\* of a LOCKED cycle whose profit is not positive, half the total_cost of a
\* STOPPED cycle whose total_cost is positive.
LossOf(c) ==
  IF c.status = "LOCKED" /\ c.locked_profit <= 0 THEN -2 * c.locked_profit
  ELSE IF c.status = "STOPPED" /\ c.total_cost > 0 THEN c.total_cost
  ELSE 0

RECURSIVE TotalLoss(_)
TotalLoss(cy) == IF cy = <<>> THEN 0 ELSE LossOf(Head(cy)) + TotalLoss(Tail(cy))

\* C22: get_stats counts completed_cycles = locked_cycles + stopped_cycles,
\* EXPIRED cycles only in expired_cycles, and the three counts add up to
\* total_cycles; gross_loss is the sum of |locked_profit| over the LOCKED
\* cycles with profit <= 0 plus half of total_cost over the STOPPED cycles
\* with total_cost > 0; net_pnl = gross_profit - gross_loss; win_rate and
\* avg_profit_per_cycle are locked_cycles and net_pnl over completed_cycles
\* when that is positive, and 0 otherwise.
C22_StatsIdentities ==
  LET s == get_stats(trades, cycles)
  IN /\ s.locked_cycles = Cardinality(WithStatus(cycles, "LOCKED"))
     /\ s.stopped_cycles = Cardinality(WithStatus(cycles, "STOPPED"))
     /\ s.expired_cycles = Cardinality(WithStatus(cycles, "EXPIRED"))
     /\ s.completed_cycles = s.locked_cycles + s.stopped_cycles
     /\ s.locked_cycles + s.stopped_cycles + s.expired_cycles = s.total_cycles
     /\ s.total_cycles = Len(cycles)
     /\ s.gross_loss = TotalLoss(cycles)
     /\ s.net_pnl = s.gross_profit - s.gross_loss
     /\ s.win_rate = IF s.completed_cycles > 0
                     THEN <<s.locked_cycles, s.completed_cycles>> ELSE <<0, 1>>
     /\ s.avg_profit_per_cycle = IF s.completed_cycles > 0
                                 THEN <<s.net_pnl, s.completed_cycles>> ELSE <<0, 1>>

\* A stopped cycle with a position and an expired cycle are closed: one
\* cycle is completed, and the loss is half the stopped cycle's cost.
C22_Witness ==
  /\ Len(cycles) = 2
  /\ cycles[1].status = "STOPPED"
  /\ cycles[1].total_cost = 235
  /\ cycles[2].status = "EXPIRED"
  /\ get_stats(trades, cycles).completed_cycles = 1
  /\ get_stats(trades, cycles).gross_loss = 235
  /\ get_stats(trades, cycles).win_rate = <<0, 1>>

\* C23: get_stats changes no ledger state (trades, closed cycles, current
\* cycle, session file), and what it returns is determined by the number of
\* trades and the closed cycles: an open current cycle, whatever its legs
\* and total_cost, adds nothing to any count or amount.
C23_GetStatsIsPure ==
  [][ev' # ev =>
       /\ UNCHANGED <<trades, cycles, current_cycle, log_file, saving, durable>>
       /\ ev'.ret.total_trades = Len(trades)
       /\ ev'.ret.total_cycles = Len(cycles)
       /\ ev'.ret.locked_cycles = Cardinality(WithStatus(cycles, "LOCKED"))
       /\ ev'.ret.stopped_cycles = Cardinality(WithStatus(cycles, "STOPPED"))
       /\ ev'.ret.expired_cycles = Cardinality(WithStatus(cycles, "EXPIRED"))
       /\ ev'.ret.completed_cycles = ev'.ret.locked_cycles + ev'.ret.stopped_cycles
       /\ ev'.ret.gross_loss = TotalLoss(cycles)
       /\ ev'.ret.net_pnl = ev'.ret.gross_profit - TotalLoss(cycles)]_vars

\* get_stats has returned while a cycle with a bought leg is open and one
\* stopped cycle is closed: the statistics show the closed cycle only.
C23_Witness ==
  /\ ev.op = "get_stats"
  /\ current_cycle # <<>>
  /\ current_cycle[1].total_cost = 245
  /\ Len(cycles) = 1
  /\ cycles[1].status = "STOPPED"
  /\ cycles[1].total_cost = 235
  /\ ev.ret.total_cycles = 1
  /\ ev.ret.total_trades = 2
  /\ ev.ret.gross_loss = 235

\* C24: a failure to write the session file during record_trade or
\* complete_cycle leaves the operation as an exception; an operation that
\* has saved returns normally only with the file holding the trades and
\* closed cycles that are in memory.
C24_WriteFailurePropagates ==
  [][lev'.op \in {"record_trade", "complete_cycle"} =>
       /\ faults' # faults => lev'.ret = "raised"
       /\ (lev'.ret = "ok") =>
            /\ log_file'.state = "json"
            /\ LoadedTrades(log_file') = trades'
            /\ LoadedCycles(log_file') = cycles']_vars

\* complete_cycle has raised out of a write that failed half way: the file
\* is cut short and the closed cycle is in memory only.
C24_Witness ==
  /\ lev = LEv("complete_cycle", "raised")
  /\ log_file.state = "partial"
  /\ Len(cycles) = 1
  /\ Len(trades) = 1
  /\ durable = 1

\* ---------------------------------------------------------------- scanner
\* The two asks the last fetched books give, and whether they allow an
\* attempt for the given min_edge: both legs have an ask, the edge
\* 1 - (up_ask + down_ask) is at least min_edge, and both sizes are positive.
UpAsk(sc) == IF sc.books.n = 2 THEN best_ask_of(sc.books.up) ELSE <<>>

DownAsk(sc) == IF sc.books.n = 2 THEN best_ask_of(sc.books.down) ELSE <<>>

Attemptable(sc) ==
  /\ UpAsk(sc) # <<>>
  /\ DownAsk(sc) # <<>>
  /\ 2 * (100 - (UpAsk(sc)[1] + DownAsk(sc)[1])) >= sc.min_edge
  /\ UpAsk(sc)[2] > 0
  /\ DownAsk(sc)[2] > 0

\* C25: orders are posted in an iteration only if both legs have a best ask
\* (the ask _best_ask reads), 1 - (up_ask + down_ask) >= min_edge and q > 0,
\* with q = min(usd_per_attempt / (up_ask + down_ask), up size, down size),
\* so that q is at most each leg's size and q * (up_ask + down_ask) is at
\* most usd_per_attempt; an iteration whose books do not allow that posts
\* nothing, sleeps the poll interval and goes back to the head of the loop.
C25_PostedOnlyOnEdgeAndSize ==
  [][/\ posted' # posted =>
          LET q == posted'[Len(posted')][1].size
              p_sum == UpAsk(scan')[1] + DownAsk(scan')[1]
          IN /\ scan.pc = "fetch"
             /\ Attemptable(scan')
             /\ q[2] > 0 /\ q[1] > 0
             /\ q[1] <= UpAsk(scan')[2] * q[2]
             /\ q[1] <= DownAsk(scan')[2] * q[2]
             /\ q[1] * p_sum <= UsdPerAttempt * q[2]
             /\ \/ q[1] * p_sum = UsdPerAttempt * q[2]
                \/ q[1] = UpAsk(scan')[2] * q[2]
                \/ q[1] = DownAsk(scan')[2] * q[2]
     /\ (scan.pc = "fetch" /\ scan'.pc \in {"sleep", "post"} /\ ~Attemptable(scan')) =>
          /\ posted' = posted
          /\ scan'.pc = "sleep"
     /\ (scan.pc = "sleep" /\ scan' # scan) => (scan'.pc = "check" /\ posted' = posted)]_vars

\* An attempt was posted whose size is what the DOWN book offers, less than
\* the target spend would buy.
C25_Witness ==
  /\ scan.pc = "post"
  /\ Len(posted) = 1
  /\ posted[1][1].size = <<3, 1>>
  /\ scan.books.down = <<Level(49, 3)>>
  /\ scan.min_edge = 1

\* C26: every submission is one post_orders request of exactly two buy
\* orders, the first for the UP token and the second for the DOWN token,
\* of the same size, each priced at the ask _best_ask read from its leg's
\* book (the first entry of the asks), both of the same order type: the
\* configured one, FOK when the name is not an order type.
C26_TwoLegsInOneRequest ==
  [][posted' # posted =>
       /\ Len(posted') = Len(posted) + 1
       /\ SubSeq(posted', 1, Len(posted)) = posted
       /\ LET r == posted'[Len(posted')]
          IN /\ Len(r) = 2
             /\ r[1].token = "UP" /\ r[2].token = "DOWN"
             /\ r[1].side = "BUY" /\ r[2].side = "BUY"
             /\ r[1].size = r[2].size
             /\ r[1].price = scan'.books.up[1].price
             /\ r[2].price = scan'.books.down[1].price
             /\ r[1].order_type = r[2].order_type
             /\ r[1].order_type = (IF scan.order_type \in {"FOK", "FAK", "GTC", "GTD"}
                                   THEN scan.order_type ELSE "FOK")]_vars

\* A run configured with a name that is no order type has posted the two
\* legs at 0.47 and 0.49 as fill-or-kill, sized 5/0.96.
C26_Witness ==
  /\ scan.order_type = "IOC"
  /\ Len(posted) >= 1
  /\ posted[1][1] = LegOrder("UP", 47, <<500, 96>>, "FOK")
  /\ posted[1][2] = LegOrder("DOWN", 49, <<500, 96>>, "FOK")

\* C27: an iteration in which a leg has no ask (no ask entries, a top ask
\* that does not parse, or a response that is not exactly two books) creates
\* and posts no order, changes nothing in the ledger, raises nothing, and
\* goes to the sleep of the poll interval, after which the loop goes on.
C27_NoLiquidityPath ==
  [][/\ (scan.pc = "fetch" /\ scan'.pc # "raised" /\ scan' # scan
           /\ \/ scan'.books.n # 2
              \/ scan'.books.up = <<>> \/ scan'.books.down = <<>>
              \/ ~scan'.books.up[1].parses \/ ~scan'.books.down[1].parses) =>
          /\ posted' = posted
          /\ UNCHANGED ledger
          /\ scan'.pc = "sleep"
          /\ scan'.last \in {"no_books", "no_ask"}
     /\ (scan.pc = "sleep" /\ scan.last \in {"no_books", "no_ask"} /\ scan' # scan) =>
          /\ scan'.pc = "check"
          /\ posted' = posted
          /\ UNCHANGED ledger]_vars

\* The loop is back at its head after an iteration in which the UP book's
\* top ask did not parse, though an ask behind it did: nothing was posted.
C27_Witness ==
  /\ scan.pc = "check"
  /\ scan.last = "no_ask"
  /\ scan.books.up = <<BadLevel, Level(47, 10)>>
  /\ scan.books.down = <<Level(49, 8)>>
  /\ posted = <<>>

\* C28: an iteration of the scan loop begins only while the time is before
\* the deadline (expiry minus min_seconds_to_expiry); a window whose
\* deadline has passed when the loop is entered gets no iteration, no book
\* fetch and no submission, and with continuous = false the run then ends.
C28_NoIterationPastDeadline ==
  [][/\ (scan'.pc = "fetch" /\ scan.pc # "fetch") => (scan.pc = "check" /\ scan.ttd > 0)
     /\ (scan.pc = "check" /\ scan.ttd <= 0 /\ scan' # scan) =>
          /\ posted' = posted
          /\ scan'.books = scan.books
          /\ scan'.pc = (IF scan.continuous THEN "discover" ELSE "done")
     /\ scan.pc = "done" => scan' = scan]_vars

\* A run with continuous = false has ended on a window whose deadline had
\* passed at loop entry: nothing was fetched and nothing was posted.
C28_Witness ==
  /\ scan.pc = "done"
  /\ ~scan.continuous
  /\ scan.cycle = 1
  /\ scan.ttd = -1
  /\ scan.last = "none"
  /\ scan.books.n = 0
  /\ posted = <<>>

\* C29 (as claimed): an error of the venue during get_order_books or
\* post_orders never ends the scan loop.
C29_VenueErrorsAreMasked ==
  ~(scan.pc = "raised" /\ scan.last \in {"fetch_error", "post_error"})

\* C30 (as claimed): once post_orders has returned for a two-leg attempt,
\* the ledger holds two more trades, one per leg at the leg's price, and a
\* cycle that carries the attempt.
C30_AttemptReachesLedger ==
  [][(scan.pc = "post" /\ scan'.pc = "sleep") =>
       LET r == posted[Len(posted)]
           n == Len(trades)
       IN /\ Len(trades') = n + 2
          /\ trades'[n + 1].price = r[1].price
          /\ trades'[n + 2].price = r[2].price
          /\ (current_cycle' # <<>> \/ Len(cycles') = Len(cycles) + 1)]_vars

\* ------------------------------------------------------------ order books
StrictlyDescending(s) == \A i \in 1..(Len(s) - 1) : s[i][1] > s[i + 1][1]

StrictlyAscending(s) == \A i \in 1..(Len(s) - 1) : s[i][1] < s[i + 1][1]

AllPositive(s) == \A i \in DOMAIN s : s[i][1] > 0 /\ s[i][2] > 0

\* C31 (as claimed): every OrderBook either engine constructs has bids
\* strictly descending and asks strictly ascending by price and no entry
\* with price <= 0 or size <= 0, whatever the venue sent.
C31_BooksStrictlySortedAndPositive ==
  (ev.op = "get_order_book" /\ ~ev.ret.raised) =>
     /\ StrictlyDescending(ev.ret.book.bids)
     /\ StrictlyAscending(ev.ret.book.asks)
     /\ AllPositive(ev.ret.book.bids)
     /\ AllPositive(ev.ret.book.asks)

\* -------------------------------------------------------- configuration
\* C32 (as claimed): for every value of TRADING_MODE, load_config never
\* returns a configuration with paper_mode false and an empty private key:
\* it raises instead.
C32_NoLiveConfigWithoutKey ==
  (ev.op = "load_config" /\ ~ev.ret.raised) =>
     (ev.ret.paper_mode \/ ev.ret.private_key # "")

\* ---------------------------------------------------- run_with_discovery
\* The windows whose bot was run and has ended.
WindowEnded == run.ended # "none" /\ run.pc \in {"head", "done", "raised"}

\* C33 (as claimed): when a window has ended (timed out, raised or
\* returned), the cancel-all sweep was issued on its order manager and no
\* cycle is open, so that the next window starts with no cycle open and no
\* order of the earlier window active.
C33_WindowEndSweepsAndCloses ==
  WindowEnded => (current_cycle = <<>> /\ run.sweeps > 0 /\ (run.paper_mode => run.active = 0))

\* ---------------------------------------------------------------- scanner
\* C34 (as claimed): no batch is posted at or after the deadline (expiry
\* minus min_seconds_to_expiry), however long the book fetch and the
\* signing of the iteration took.
C34_NoPostAtOrAfterDeadline ==
  [][posted' # posted => scan'.ttd > 0]_vars

\* ----------------------------------------------------------------- ledger
\* The earlier cycle c is still current or is among the closed ones.
Kept(c, cur, closed) ==
  \/ cur = <<c>>
  \/ \E i \in DOMAIN closed : closed[i] = c

\* C35 (as claimed): start_cycle leaves trades, cycles and the file alone
\* and makes one fresh OPEN cycle current; a cycle that was open when it
\* was called is afterwards still current or among the closed cycles.
C35_StartCycleKeepsOpenCycle ==
  [][lev'.op = "start_cycle" /\ lev' # lev =>
        /\ trades' = trades /\ cycles' = cycles /\ log_file' = log_file
        /\ current_cycle' = <<CycleRecord>>
        /\ (current_cycle # <<>> => Kept(current_cycle[1], current_cycle', cycles'))]_vars

\* C36 (as claimed): a cycle's total_cost is the sum of the values of the
\* trades recorded while it was current: it starts at 0 and every
\* record_trade adds the value of its trade, a second fill on the same leg
\* included.
C36_TotalCostIsSumOfTradeValues ==
  [][(lev'.op = "record_trade" /\ Len(trades') = Len(trades) + 1 /\ current_cycle # <<>>) =>
        /\ current_cycle' # <<>>
        /\ current_cycle'[1].total_cost =
             current_cycle[1].total_cost + trades'[Len(trades')].value]_vars

\* ----------------------------------------------------------- paper engine
\* Order i is FILLED after the step and was not before it.
BecomesFilled(i) ==
  /\ orders'[i].status = "FILLED"
  /\ (i \in DOMAIN orders => orders[i].status # "FILLED")

\* C37 (as claimed): the paper engine fills no limit order from the book
\* that stands in for a failed or empty fetch: when an order becomes FILLED
\* the book of its side is not the default book.
C37_NoFillFromDefaultBook ==
  [][\A i \in DOMAIN orders' :
        (engine = "paper" /\ BecomesFilled(i)) =>
           cached_books'[orders'[i].side] # DefaultBook]_vars

\* ------------------------------------------------------------ order books
\* OrderBook.spread: <<>> for None, <<x>> for the number x.  The test is
\* the truth value of the two best prices.
spread(b) ==
  IF Truthy(best_bid(b)) /\ Truthy(best_ask(b)) THEN <<best_ask(b) - best_bid(b)>> ELSE <<>>

\* OrderBook.mid_price: <<>> for None, <<n, 2>> for the number n / 2.
mid_price(b) ==
  IF Truthy(best_bid(b)) /\ Truthy(best_ask(b)) THEN <<best_bid(b) + best_ask(b), 2>> ELSE <<>>

\* C38 (as claimed): for every book an engine returns, best_bid is None
\* exactly when bids is empty, best_ask is None exactly when asks is empty,
\* and spread and mid_price are None exactly when a side is empty, being
\* best_ask - best_bid and the mean of the two otherwise.
C38_DerivedValuesNoneIffSideEmpty ==
  (ev.op = "get_order_book" /\ ~ev.ret.raised) =>
     LET b == ev.ret.book
         two_sided == b.bids # <<>> /\ b.asks # <<>>
     IN /\ (best_bid(b) = None) <=> (b.bids = <<>>)
        /\ (best_ask(b) = None) <=> (b.asks = <<>>)
        /\ (spread(b) = <<>>) <=> ~two_sided
        /\ (mid_price(b) = <<>>) <=> ~two_sided
        /\ two_sided => /\ spread(b) = <<b.asks[1][1] - b.bids[1][1]>>
                        /\ mid_price(b) = <<b.bids[1][1] + b.asks[1][1], 2>>

\* ----------------------------------------------------------- live engine
\* C39 (as claimed): no step lowers the filled_qty of an order, whatever
\* the venue answers to refresh_order_status.
C39_FilledQtyNeverDecreases ==
  [][\A i \in DOMAIN orders :
        i \in DOMAIN orders' /\ orders'[i].filled_qty >= orders[i].filled_qty]_vars

\* ----------------------------------------------------------- paper engine
\* C40: in the paper engine every order of the table has status OPEN,
\* FILLED or CANCELLED, filled_qty is the size when the status is FILLED
\* and 0 otherwise, and no step takes an order id out of the table.
C40_PaperOrdersAllOrNothing ==
  [][engine = "paper" =>
       /\ \A i \in DOMAIN orders' :
             LET o == orders'[i]
             IN /\ o.status \in {"OPEN", "FILLED", "CANCELLED"}
                /\ o.filled_qty = (IF o.status = "FILLED" THEN o.size ELSE 0)
       /\ DOMAIN orders \subseteq DOMAIN orders']_vars

\* The paper table holds a cancelled order with nothing filled and an
\* order filled in full.
C40_Witness ==
  /\ engine = "paper"
  /\ Len(orders) = 2
  /\ orders[1].status = "CANCELLED"
  /\ orders[1].filled_qty = 0
  /\ orders[2].status = "FILLED"
  /\ orders[2].filled_qty = orders[2].size
  /\ orders[2].size > 0

====
